---- MODULE Spec2Model ----
(***************************************************************************)
(* Model of the VC4/VC5 HDMI encoder driver, drivers/gpu/drm/vc4/vc4_hdmi.c *)
(*                                                                         *)
(* Spec covers the output-configuration negotiation run by the encoder's    *)
(* atomic check: the search over (bpc, format) candidates, the sink-support *)
(* test, the clock computation and its three ceilings, and the hand-over of *)
(* the negotiated state at atomic_mode_set.                                 *)
(*                                                                         *)
(* SpecPower covers what follows a commit: the enable path                  *)
(* (pre_crtc_configure, pre_crtc_enable, post_crtc_enable), the disable     *)
(* path (post_crtc_disable, post_crtc_powerdown), connector detection and   *)
(* the scrambling monitor with its delayed work.                            *)
(*                                                                         *)
(* SpecPacket covers the infoframe packet RAM: vc4_hdmi_stop_packet and     *)
(* vc4_hdmi_write_infoframe with the outcomes of their two polls.           *)
(*                                                                         *)
(* SpecRegs covers the registers the enable path and the audio callbacks    *)
(* program: timings, colorspace converter, MAI and clock recovery.          *)
(*                                                                         *)
(* SpecLocks covers vc4_hdmi->mutex and vc4_hdmi->hw_lock as the encoder    *)
(* hooks, the connector probe, the audio callbacks, the interrupt handlers  *)
(* and the CEC adapter operations take them.                                *)
(***************************************************************************)
EXTENDS Integers, Sequences, FiniteSets, TLC

\* --------------------------------------------------------------- bounds

\* The requested max bpc is drawn from (8 - BpcSlack) .. 12.
BpcSlack == 1

\* Number of atomic commits (successful check followed by atomic_mode_set)
\* a behaviour may perform.
MaxCommits == 1

\* Number of enable transitions (calls of pre_crtc_configure) a behaviour
\* may perform.
MaxEnables == 1

\* Number of calls of the connector's detect hook.
MaxDetects == 2

\* Number of times the scrambling work may be taken up by the workqueue.
MaxChecks == 2

\* Number of calls of the audio codec callbacks (startup, prepare, shutdown).
MaxAudioCalls == 2

\* ------------------------------------------------------ program constants

HDMI_14_MAX_TMDS_CLK == 340000000

HSM_MIN_CLOCK_FREQ == 120000000

SCRAMBLING_POLLING_DELAY_MS == 1000

EINVAL == 22

VC4_HDMI_OUTPUT_RGB == "RGB"
VC4_HDMI_OUTPUT_YUV422 == "YUV422"
VC4_HDMI_OUTPUT_YUV444 == "YUV444"

DRM_COLOR_FORMAT_RGB444 == "RGB444"
DRM_COLOR_FORMAT_YCBCR444 == "YCBCR444"
DRM_COLOR_FORMAT_YCBCR422 == "YCBCR422"

DRM_EDID_HDMI_DC_30 == "DC_30"
DRM_EDID_HDMI_DC_36 == "DC_36"

\* The Wi-Fi channel 1 band, 2.400 GHz .. 2.422 GHz, in units of 10 kHz: the
\* TMDS bit rate is mode->clock * 1000 * 10 Hz, that is mode->clock of them.
WIFI_2_4GHz_CH1_MIN_FREQ == 240000
WIFI_2_4GHz_CH1_MAX_FREQ == 242200

\* The three hardware variants: max_pixel_clock and unsupported_odd_h_timings.
bcm2835_variant ==
    [name |-> "bcm2835", max_pixel_clock |-> 162000000,
     unsupported_odd_h_timings |-> FALSE]

bcm2711_hdmi0_variant ==
    [name |-> "bcm2711_hdmi0", max_pixel_clock |-> 600000000,
     unsupported_odd_h_timings |-> TRUE]

bcm2711_hdmi1_variant ==
    [name |-> "bcm2711_hdmi1", max_pixel_clock |-> HDMI_14_MAX_TMDS_CLK,
     unsupported_odd_h_timings |-> TRUE]

Variants == {bcm2835_variant, bcm2711_hdmi0_variant, bcm2711_hdmi1_variant}

\* ------------------------------------------------------------ input sets

\* struct drm_display_mode: clock in kHz, the DBLCLK flag and the horizontal
\* geometry the atomic check reads.
Mode(clock, dblclk, hd, hss, hse, ht) ==
    [clock |-> clock, dblclk |-> dblclk, hdisplay |-> hd,
     hsync_start |-> hss, hsync_end |-> hse, htotal |-> ht]

Mode640x480 == Mode(25175, FALSE, 640, 656, 752, 800)
Mode480i == Mode(13500, TRUE, 720, 739, 801, 858)
Mode1366x768 == Mode(85500, FALSE, 1366, 1436, 1579, 1792)
Mode1080p60 == Mode(148500, FALSE, 1920, 2008, 2052, 2200)
Mode1440p60 == Mode(241500, FALSE, 2560, 2608, 2640, 2720)
Mode2160p60 == Mode(594000, FALSE, 3840, 4016, 4104, 4400)

\* A user-supplied double-clocked mode: 120.75 MHz, sent at 241.5 MHz.
Mode1280Dbl == Mode(120750, TRUE, 1280, 1328, 1360, 1440)

Modes ==
    {Mode640x480, Mode480i, Mode1366x768, Mode1080p60, Mode1440p60,
     Mode2160p60, Mode1280Dbl}

\* conn_state->max_bpc is the smaller of the sink's EDID bit depth and the
\* max bpc property, which the connector registers with the range 8 .. 12.
RequestedBpcs == (8 - BpcSlack) .. 12

DeepColorSets == SUBSET {DRM_EDID_HDMI_DC_30, DRM_EDID_HDMI_DC_36}

\* struct drm_display_info as filled from the sink's EDID.  The YCbCr 4:4:4
\* deep-color modes mirror the RGB ones when the sink has 4:4:4 at all.  An
\* HDMI sink whose maximum TMDS clock is above 340 MHz carries the HDMI Forum
\* data block and with it hdmi.scdc.supported and
\* hdmi.scdc.scrambling.supported.
DisplayInfo(h, cf, dc, mt) ==
    [is_hdmi |-> h, color_formats |-> cf,
     edid_hdmi_rgb444_dc_modes |-> dc,
     edid_hdmi_ycbcr444_dc_modes |->
         IF DRM_COLOR_FORMAT_YCBCR444 \in cf THEN dc ELSE {},
     max_tmds_clock |-> mt,
     scdc |-> [supported |-> h /\ mt > 340000,
               scrambling |-> [supported |-> h /\ mt > 340000]]]

\* The sink info with the two SCDC capability bits as given.
ScdcSink(info, supported, scrambling) ==
    [info EXCEPT !.scdc = [supported |-> supported,
                           scrambling |-> [supported |-> scrambling]]]

HdmiSinks ==
    {DisplayInfo(TRUE, cf, dc, mt) :
        cf \in {{DRM_COLOR_FORMAT_RGB444}, {DRM_COLOR_FORMAT_YCBCR422},
                {DRM_COLOR_FORMAT_RGB444, DRM_COLOR_FORMAT_YCBCR422},
                {DRM_COLOR_FORMAT_RGB444, DRM_COLOR_FORMAT_YCBCR444,
                 DRM_COLOR_FORMAT_YCBCR422}},
        dc \in DeepColorSets,
        mt \in {0, 165000, 600000}}

DviSinks ==
    {DisplayInfo(FALSE, cf, dc, mt) :
        cf \in {{}, {DRM_COLOR_FORMAT_RGB444},
                {DRM_COLOR_FORMAT_RGB444, DRM_COLOR_FORMAT_YCBCR444,
                 DRM_COLOR_FORMAT_YCBCR422}},
        dc \in {{}, {DRM_EDID_HDMI_DC_30, DRM_EDID_HDMI_DC_36}},
        mt \in {0, 165000}}

DisplayInfos == HdmiSinks \cup DviSinks

\* The inputs of SpecPower: the committed mode and the sink.  A 340 MHz mode
\* puts the TMDS rate on the scrambling threshold at 8 bpc.
Mode340MHz == Mode(340000, FALSE, 2560, 2608, 2640, 2720)

\* 3840x2160 at 30 Hz: 297 MHz, the upper threshold of the byte clock tiers
\* at 8 bpc, as 1920x1080 at 60 Hz is the lower one.
Mode2160p30 == Mode(297000, FALSE, 3840, 4016, 4104, 4400)

PowerModes == {Mode1080p60, Mode2160p30, Mode340MHz, Mode2160p60}

PowerSinks ==
    LET hdmi2 == DisplayInfo(TRUE, {DRM_COLOR_FORMAT_RGB444},
                             {DRM_EDID_HDMI_DC_30, DRM_EDID_HDMI_DC_36},
                             600000)
    IN  {ScdcSink(hdmi2, sup, scr) : sup \in BOOLEAN, scr \in BOOLEAN}
            \cup {DisplayInfo(FALSE, {DRM_COLOR_FORMAT_RGB444}, {}, 0)}

\* The steps of pre_crtc_configure that can fail, and "none".
FailPoints ==
    {"none", "hsm_clock", "pm_runtime", "pixel_rate", "pixel_clock",
     "bvb_rate", "pixel_bvb_clock"}

\* ----------------------------------------------------------------- state

VARIABLES
    variant,                   \* vc4_hdmi->variant
    disable_4kp60,             \* vc4_hdmi->disable_4kp60
    disable_wifi_frequencies,  \* vc4_hdmi->disable_wifi_frequencies
    display_info,              \* vc4_hdmi->connector.display_info
    conn_state,                \* connector->state (the current, old state)
    vc4_state,                 \* the new connector state under check
    adjusted_mode,             \* crtc_state->adjusted_mode
    mode_changed,              \* crtc_state->mode_changed
    ret,                       \* return value of the last atomic check
    pc,                        \* "idle" or "checked"
    saved,                     \* saved_adjusted_mode, output_bpc, output_format
    hw_writes,                 \* number of HDMI_WRITE register writes so far
    ncommits,
    power,                     \* clocks, runtime PM reference and PHY
    trace,                     \* the steps of the current enable or disable
    epc,                       \* the encoder hook the CRTC called last
    cfg_ret,                   \* ret of the last pre_crtc_configure
    hdmi,                      \* scdc_enabled, scrambling_work, scrambler, sink
    calls,                     \* hook calls made so far
    pram,                      \* the packet RAM and its two registers
    dev,                       \* timing, CSC and audio registers, audio state
    thr                        \* the two locks and each thread's position

vars ==
    <<variant, disable_4kp60, disable_wifi_frequencies, display_info,
      conn_state, vc4_state, adjusted_mode, mode_changed, ret, pc, saved,
      hw_writes, ncommits, power, trace, epc, cfg_ret, hdmi, calls,
      pram, dev, thr>>

\* What the atomic check and commit own, hw_writes apart.
negvars ==
    <<variant, disable_4kp60, disable_wifi_frequencies, display_info,
      conn_state, vc4_state, adjusted_mode, mode_changed, ret, pc, saved,
      ncommits>>

\* What the enable and disable paths and the scrambling monitor own.
hdmivars == <<power, trace, epc, cfg_ret, hdmi, calls>>

\* What the infoframe writer, the register programmers, the audio callbacks
\* and the lock operations own.
devvars == <<pram, dev, thr>>

\* ------------------------------------------------------------- operators

\* do_div(a * b, d) on an unsigned long long: floor(a * b / d), evaluated
\* without forming the 64-bit product.
MulDiv(a, b, d) == (a \div d) * b + ((a % d) * b) \div d

clamp_t(val, lo, hi) == IF val < lo THEN lo ELSE IF val > hi THEN hi ELSE val

\* The CEA-861 modes of the input set, as drm_match_cea_mode() identifies
\* them: all timings equal and the clock within the CEA tolerance.
drm_match_cea_mode(mode) ==
    IF mode = Mode640x480 THEN 1
    ELSE IF mode = Mode480i THEN 6
    ELSE IF mode = Mode1080p60 THEN 16
    ELSE IF mode = Mode2160p60 THEN 97
    ELSE 0

\* A switch that lets YUV422 through at any bit depth.
Mut_format_switch_yuv422_any_bpc(info, format, bpc) ==
    CASE format = VC4_HDMI_OUTPUT_RGB ->
            /\ DRM_COLOR_FORMAT_RGB444 \in info.color_formats
            /\ bpc = 10 => DRM_EDID_HDMI_DC_30 \in info.edid_hdmi_rgb444_dc_modes
            /\ bpc = 12 => DRM_EDID_HDMI_DC_36 \in info.edid_hdmi_rgb444_dc_modes
      [] format = VC4_HDMI_OUTPUT_YUV422 ->
            DRM_COLOR_FORMAT_YCBCR422 \in info.color_formats
      [] OTHER -> FALSE

\* The switch (format) of vc4_hdmi_sink_supports_format_bpc.
sink_format_switch(info, format, bpc) ==
    CASE format = VC4_HDMI_OUTPUT_RGB ->
            IF DRM_COLOR_FORMAT_RGB444 \notin info.color_formats
            THEN FALSE
            ELSE IF bpc = 10 /\ DRM_EDID_HDMI_DC_30 \notin
                                    info.edid_hdmi_rgb444_dc_modes
            THEN FALSE
            ELSE IF bpc = 12 /\ DRM_EDID_HDMI_DC_36 \notin
                                    info.edid_hdmi_rgb444_dc_modes
            THEN FALSE
            ELSE TRUE
      [] format = VC4_HDMI_OUTPUT_YUV422 ->
            IF DRM_COLOR_FORMAT_YCBCR422 \notin info.color_formats
            THEN FALSE
            ELSE IF bpc # 12 THEN FALSE
            ELSE TRUE
      [] format = VC4_HDMI_OUTPUT_YUV444 ->
            IF DRM_COLOR_FORMAT_YCBCR444 \notin info.color_formats
            THEN FALSE
            ELSE IF bpc = 10 /\ DRM_EDID_HDMI_DC_30 \notin
                                    info.edid_hdmi_ycbcr444_dc_modes
            THEN FALSE
            ELSE IF bpc = 12 /\ DRM_EDID_HDMI_DC_36 \notin
                                    info.edid_hdmi_ycbcr444_dc_modes
            THEN FALSE
            ELSE TRUE
      [] OTHER -> FALSE

\* The check without its DVI test.
Mut_sink_supports_no_dvi_test(info, mode, format, bpc) ==
    IF drm_match_cea_mode(mode) = 1 /\ bpc # 8 THEN FALSE
    ELSE sink_format_switch(info, format, bpc)

\* The check without its VIC 1 test.
Mut_sink_supports_no_vic1_test(info, mode, format, bpc) ==
    IF ~info.is_hdmi /\ (format # VC4_HDMI_OUTPUT_RGB \/ bpc # 8)
    THEN FALSE
    ELSE sink_format_switch(info, format, bpc)

vc4_hdmi_sink_supports_format_bpc(info, mode, format, bpc) ==
    LET vic == drm_match_cea_mode(mode) IN
    IF vic = 1 /\ bpc # 8 THEN FALSE
    ELSE IF ~info.is_hdmi /\ (format # VC4_HDMI_OUTPUT_RGB \/ bpc # 8)
    THEN FALSE
    ELSE sink_format_switch(info, format, bpc)

\* The ceilings without the disable_4kp60 one.
Mut_clock_valid_no_4kp60(clock) ==
    IF clock > variant.max_pixel_clock THEN FALSE
    ELSE IF display_info.max_tmds_clock # 0
            /\ clock > display_info.max_tmds_clock * 1000
    THEN FALSE
    ELSE TRUE

\* A validation against the sink's ceiling alone.
Mut_clock_valid_sink_only(clock) ==
    IF display_info.max_tmds_clock # 0
       /\ clock > display_info.max_tmds_clock * 1000
    THEN FALSE
    ELSE TRUE

\* MODE_OK is TRUE, MODE_CLOCK_HIGH is FALSE.
vc4_hdmi_encoder_clock_valid(clock) ==
    IF clock > variant.max_pixel_clock THEN FALSE
    ELSE IF disable_4kp60 /\ clock > HDMI_14_MAX_TMDS_CLK THEN FALSE
    ELSE IF display_info.max_tmds_clock # 0
            /\ clock > display_info.max_tmds_clock * 1000
    THEN FALSE
    ELSE TRUE

\* The clock without the 8 bpc of YUV422 on the wire.
Mut_compute_mode_clock_yuv422_bpc(mode, bpc, fmt) ==
    LET clock0 == mode.clock * 1000
        clock1 == IF mode.dblclk THEN clock0 * 2 ELSE clock0
    IN  MulDiv(clock1, bpc, 8)

vc4_hdmi_encoder_compute_mode_clock(mode, bpc, fmt) ==
    LET clock0 == mode.clock * 1000
        clock1 == IF mode.dblclk THEN clock0 * 2 ELSE clock0
        bpc1 == IF fmt = VC4_HDMI_OUTPUT_YUV422 THEN 8 ELSE bpc
    IN  MulDiv(clock1, bpc1, 8)

\* The rate stored before it is validated.
Mut_compute_clock_store_first(st, mode, bpc, fmt) ==
    LET clock == vc4_hdmi_encoder_compute_mode_clock(mode, bpc, fmt) IN
    [ret |-> IF vc4_hdmi_encoder_clock_valid(clock) THEN 0 ELSE -EINVAL,
     st |-> [st EXCEPT !.tmds_char_rate = clock]]

\* Returns the return value and the connector state it leaves behind.
vc4_hdmi_encoder_compute_clock(st, mode, bpc, fmt) ==
    LET clock == vc4_hdmi_encoder_compute_mode_clock(mode, bpc, fmt) IN
    IF ~vc4_hdmi_encoder_clock_valid(clock)
    THEN [ret |-> -EINVAL, st |-> st]
    ELSE [ret |-> 0, st |-> [st EXCEPT !.tmds_char_rate = clock]]

\* The formats tried in the other order: YUV422, then RGB.
Mut_compute_format_yuv422_first(st, mode, bpc) ==
    LET try(fmt) ==
            IF vc4_hdmi_sink_supports_format_bpc(display_info, mode, fmt, bpc)
            THEN vc4_hdmi_encoder_compute_clock(st, mode, bpc, fmt)
            ELSE [ret |-> -EINVAL, st |-> st]
        yuv == try(VC4_HDMI_OUTPUT_YUV422)
        rgb == try(VC4_HDMI_OUTPUT_RGB)
    IN
    IF yuv.ret = 0
    THEN [ret |-> 0,
          st |-> [yuv.st EXCEPT !.output_format = VC4_HDMI_OUTPUT_YUV422]]
    ELSE IF rgb.ret = 0
    THEN [ret |-> 0,
          st |-> [rgb.st EXCEPT !.output_format = VC4_HDMI_OUTPUT_RGB]]
    ELSE [ret |-> -EINVAL, st |-> st]

vc4_hdmi_encoder_compute_format(st, mode, bpc) ==
    LET rgb == IF vc4_hdmi_sink_supports_format_bpc(
                      display_info, mode, VC4_HDMI_OUTPUT_RGB, bpc)
               THEN vc4_hdmi_encoder_compute_clock(
                        st, mode, bpc, VC4_HDMI_OUTPUT_RGB)
               ELSE [ret |-> -EINVAL, st |-> st]
    IN
    IF rgb.ret = 0
    THEN [ret |-> 0,
          st |-> [rgb.st EXCEPT !.output_format = VC4_HDMI_OUTPUT_RGB]]
    ELSE
    LET yuv == IF vc4_hdmi_sink_supports_format_bpc(
                      display_info, mode, VC4_HDMI_OUTPUT_YUV422, bpc)
               THEN vc4_hdmi_encoder_compute_clock(
                        rgb.st, mode, bpc, VC4_HDMI_OUTPUT_YUV422)
               ELSE [ret |-> -EINVAL, st |-> rgb.st]
    IN
    IF yuv.ret = 0
    THEN [ret |-> 0,
          st |-> [yuv.st EXCEPT !.output_format = VC4_HDMI_OUTPUT_YUV422]]
    ELSE [ret |-> -EINVAL, st |-> yuv.st]

\* The body of the for loop of vc4_hdmi_encoder_compute_config, from bpc on.
RECURSIVE compute_config_loop(_, _, _)
compute_config_loop(st, mode, bpc) ==
    LET r == vc4_hdmi_encoder_compute_format(st, mode, bpc) IN
    IF r.ret # 0
    THEN IF bpc - 2 >= 8
         THEN compute_config_loop(r.st, mode, bpc - 2)
         ELSE r
    ELSE [ret |-> 0, st |-> [r.st EXCEPT !.output_bpc = bpc]]

\* The search started at 8 bpc instead of the clamped maximum.
Mut_compute_config_from_8(st, mode) == compute_config_loop(st, mode, 8)

\* A negotiation that keeps what an earlier commit left in the state.
Mut_compute_config_keeps_prior(st, mode) ==
    IF st.output_bpc # 0 THEN [ret |-> 0, st |-> st]
    ELSE compute_config_loop(st, mode, clamp_t(st.max_bpc, 8, 12))

vc4_hdmi_encoder_compute_config(st, mode) ==
    LET max_bpc == clamp_t(st.max_bpc, 8, 12) IN
    compute_config_loop(st, mode, max_bpc)

\* The odd horizontal timings fixup and test of the atomic check.
FixupOddTimings(mode) ==
    IF variant.unsupported_odd_h_timings /\ mode.dblclk
    THEN LET hss == IF (mode.hsync_start - mode.hdisplay) % 2 = 1
                    THEN mode.hsync_start - 1 ELSE mode.hsync_start
             hse == IF (mode.hsync_end - hss) % 2 = 1
                    THEN mode.hsync_end - 1 ELSE mode.hsync_end
         IN  [mode EXCEPT !.hsync_start = hss, !.hsync_end = hse]
    ELSE mode

HasOddTimings(mode) ==
    \/ mode.hdisplay % 2 = 1
    \/ mode.hsync_start % 2 = 1
    \/ mode.hsync_end % 2 = 1
    \/ mode.htotal % 2 = 1

\* The Wi-Fi channel 1 override: tmds_bit_rate = clock * 1000 * 10 lies in
\* the band exactly when clock (kHz) lies in 240000 .. 242200.
FixupWifi(mode) ==
    IF /\ disable_wifi_frequencies
       /\ mode.clock >= WIFI_2_4GHz_CH1_MIN_FREQ
       /\ mode.clock <= WIFI_2_4GHz_CH1_MAX_FREQ
    THEN [mode EXCEPT !.clock = 238560]
    ELSE mode

\* Returns ret, the adjusted mode, the new connector state and mode_changed.
vc4_hdmi_encoder_atomic_check(old, st, mode, changed) ==
    LET m1 == FixupOddTimings(mode) IN
    IF variant.unsupported_odd_h_timings /\ HasOddTimings(m1)
    THEN [ret |-> -EINVAL, mode |-> m1, st |-> st, mode_changed |-> changed]
    ELSE
    LET m2 == FixupWifi(m1)
        r == vc4_hdmi_encoder_compute_config(st, m2)
    IN
    IF r.ret # 0
    THEN [ret |-> r.ret, mode |-> m2, st |-> r.st, mode_changed |-> changed]
    ELSE [ret |-> 0, mode |-> m2, st |-> r.st,
          mode_changed |->
              IF \/ r.st.output_bpc # old.output_bpc
                 \/ r.st.output_format # old.output_format
              THEN TRUE ELSE changed]

\* vc4_hdmi_connector_reset: a zeroed state with max_bpc 8 and RGB output.
ResetState ==
    [max_bpc |-> 8, output_bpc |-> 0,
     output_format |-> VC4_HDMI_OUTPUT_RGB, tmds_char_rate |-> 0]

\* vc4_hdmi_connector_duplicate_state, followed by the core's update of
\* max_bpc from the requested value.
vc4_hdmi_connector_duplicate_state(old, max_bpc) ==
    [max_bpc |-> max_bpc, output_bpc |-> old.output_bpc,
     output_format |-> old.output_format,
     tmds_char_rate |-> old.tmds_char_rate]

\* ---------------------------------------- enable, disable and scrambling

\* clk_disable_unprepare and pm_runtime_put drop one reference; at zero the
\* kernel warns (or returns an error) and the count stays zero.
put_ref(n) == IF n > 0 THEN n - 1 ELSE 0

\* queue_delayed_work: arms the timer unless the work is already pending.
queue_delayed_work(work, delay) ==
    IF work.pending > 0 THEN work
    ELSE [work EXCEPT !.pending = 1, !.delay = delay]

delayed_work_pending(work) == work.pending > 0

vc4_hdmi_supports_scrambling ==
    IF ~display_info.is_hdmi THEN FALSE
    ELSE IF \/ ~display_info.scdc.supported
            \/ ~display_info.scdc.scrambling.supported
    THEN FALSE
    ELSE TRUE

\* The test with the threshold itself taken as needing scrambling.
Mut_needs_scrambling_at_threshold(mode, bpc, fmt) ==
    vc4_hdmi_encoder_compute_mode_clock(mode, bpc, fmt) >= HDMI_14_MAX_TMDS_CLK

vc4_hdmi_mode_needs_scrambling(mode, bpc, fmt) ==
    LET clock == vc4_hdmi_encoder_compute_mode_clock(mode, bpc, fmt) IN
    clock > HDMI_14_MAX_TMDS_CLK

\* An enabling that does not set scdc_enabled.
Mut_enable_scrambling_leaves_flag(h) ==
    IF \/ ~vc4_hdmi_supports_scrambling
       \/ ~vc4_hdmi_mode_needs_scrambling(saved.mode, saved.output_bpc,
                                          saved.output_format)
    THEN [hdmi |-> h, writes |-> 0]
    ELSE [hdmi |->
              [h EXCEPT
                   !.scdc = [high_tmds_clock_ratio |-> TRUE,
                             scrambling |-> TRUE],
                   !.scdc_writes = @ + 2,
                   !.scrambler_ctl_enable = TRUE,
                   !.scrambling_work =
                       queue_delayed_work(@, SCRAMBLING_POLLING_DELAY_MS)],
          writes |-> 1]

\* Returns the new hdmi record and the number of HDMI_WRITEs made.
vc4_hdmi_enable_scrambling(h) ==
    IF ~vc4_hdmi_supports_scrambling THEN [hdmi |-> h, writes |-> 0]
    ELSE IF ~vc4_hdmi_mode_needs_scrambling(saved.mode, saved.output_bpc,
                                            saved.output_format)
    THEN [hdmi |-> h, writes |-> 0]
    ELSE [hdmi |->
              [h EXCEPT
                   !.scdc = [high_tmds_clock_ratio |-> TRUE,
                             scrambling |-> TRUE],
                   !.scdc_writes = @ + 2,
                   !.scrambler_ctl_enable = TRUE,
                   !.scdc_enabled = TRUE,
                   !.scrambling_work =
                       queue_delayed_work(@, SCRAMBLING_POLLING_DELAY_MS)],
          writes |-> 1]

\* The work function; status is what drm_scdc_get_scrambling_status reads
\* from the sink.
vc4_hdmi_scrambling_wq(h, status) ==
    IF status THEN h
    ELSE [h EXCEPT
              !.scdc = [high_tmds_clock_ratio |-> TRUE, scrambling |-> TRUE],
              !.scdc_writes = @ + 2,
              !.scrambling_work =
                  queue_delayed_work(@, SCRAMBLING_POLLING_DELAY_MS)]

\* cancel_delayed_work_sync: a running work function is waited for (status is
\* what it reads), and the work is left neither pending nor running.
cancel_delayed_work_sync(h, status) ==
    LET done == IF h.scrambling_work.running
                THEN vc4_hdmi_scrambling_wq(h, status) ELSE h
    IN  [done EXCEPT
             !.scrambling_work = [pending |-> 0, delay |-> 0,
                                  running |-> FALSE]]

\* Returns the new hdmi record and the number of HDMI_WRITEs made.
vc4_hdmi_disable_scrambling(h, status) ==
    IF ~h.scdc_enabled THEN [hdmi |-> h, writes |-> 0]
    ELSE
    LET h1 == [h EXCEPT !.scdc_enabled = FALSE]
        h2 == IF delayed_work_pending(h1.scrambling_work)
              THEN cancel_delayed_work_sync(h1, status) ELSE h1
    IN  [hdmi |->
             [h2 EXCEPT
                  !.scrambler_ctl_enable = FALSE,
                  !.scdc = [high_tmds_clock_ratio |-> FALSE,
                            scrambling |-> FALSE],
                  !.scdc_writes = @ + 2],
         writes |-> 1]

\* The variants with an hp_detect hook, which reads HDMI_HOTPLUG; the other
\* reads the hotplug GPIO.
variant_hp_detect ==
    variant \in {bcm2711_hdmi0_variant, bcm2711_hdmi1_variant}

\* vc4_hdmi_connector_detect between mutex_lock and mutex_unlock.  resumed
\* tells whether pm_runtime_resume_and_get succeeded: a failure leaves the
\* usage count as it was and is only warned about.  connected is what the
\* GPIO or HDMI_HOTPLUG reads.  detect records whether the last call held
\* its reference and whether it read HDMI_HOTPLUG.
vc4_hdmi_connector_detect(pw, h, connected, resumed) ==
    LET pw1 == IF resumed THEN [pw EXCEPT !.pm_usage = @ + 1] ELSE pw
        s == IF connected THEN vc4_hdmi_enable_scrambling(h)
             ELSE [hdmi |-> h, writes |-> 0]
    IN  [power |-> [pw1 EXCEPT
                        !.pm_usage = put_ref(@),
                        !.detect = [acquired |-> resumed,
                                    hotplug_read |-> variant_hp_detect]],
         hdmi |-> s.hdmi,
         writes |-> s.writes]

\* A handler works on c = [power, trace, writes]: the resources, the steps
\* taken so far and the HDMI_WRITEs made.  Step notes one more step.
Step(c, ev) == [c EXCEPT !.trace = Append(@, ev)]

\* An unwinding in which err_disable_pixel_clock falls on err_put_runtime_pm.
Mut_unwind_leaves_pixel_clock(label, c) ==
    IF label = "out" THEN c
    ELSE Step([c EXCEPT !.power.pm_usage = put_ref(@)], "pm_runtime_put")

\* The labels at the end of pre_crtc_configure, entered at label.
pre_crtc_configure_unwind(label, c) ==
    LET c1 == IF label = "err_disable_pixel_clock"
              THEN Step([c EXCEPT !.power.pixel_clock = put_ref(@)],
                        "clk_disable_unprepare(pixel_clock)")
              ELSE c
        c2 == IF label \in {"err_disable_pixel_clock", "err_put_runtime_pm"}
              THEN Step([c1 EXCEPT !.power.pm_usage = put_ref(@)],
                        "pm_runtime_put")
              ELSE c1
    IN  c2

\* A tier choice whose thresholds belong to the upper tier.
Mut_bvb_rate_inclusive(tmds_char_rate) ==
    IF tmds_char_rate >= 297000000 THEN 300000000
    ELSE IF tmds_char_rate >= 148500000 THEN 150000000
    ELSE 75000000

\* bvb_rate of pre_crtc_configure, the minimum rate asked of
\* pixel_bvb_clock.
bvb_rate(tmds_char_rate) ==
    IF tmds_char_rate > 297000000 THEN 300000000
    ELSE IF tmds_char_rate > 148500000 THEN 150000000
    ELSE 75000000

\* Returns ret and the context; fail names the call that fails, if any.  A
\* failing call changes nothing, is logged and leads to its label.
vc4_hdmi_encoder_pre_crtc_configure(c, tmds_char_rate, fail) ==
    LET margin == (tmds_char_rate \div 100) * 101
        hsm_rate == IF margin > HSM_MIN_CLOCK_FREQ
                    THEN margin ELSE HSM_MIN_CLOCK_FREQ
        Failed(label, cx, msg) ==
            [ret |-> -EINVAL,
             c |-> pre_crtc_configure_unwind(label, Step(cx, msg))]
        c1 == Step([c EXCEPT !.power.hsm_min_rate = hsm_rate],
                   "clk_set_min_rate(hsm_clock)")
        c2 == Step([c1 EXCEPT !.power.pm_usage = @ + 1],
                   "pm_runtime_resume_and_get")
        c3 == Step([c2 EXCEPT !.power.pixel_rate = tmds_char_rate],
                   "clk_set_rate(pixel_clock)")
        c4 == Step([c3 EXCEPT !.power.pixel_clock = @ + 1],
                   "clk_prepare_enable(pixel_clock)")
        c5 == Step(c4, "vc4_hdmi_cec_update_clk_div")
        c6 == Step([c5 EXCEPT !.power.bvb_min_rate =
                                  bvb_rate(tmds_char_rate)],
                   "clk_set_min_rate(pixel_bvb_clock)")
        c7 == Step([c6 EXCEPT !.power.pixel_bvb_clock = @ + 1],
                   "clk_prepare_enable(pixel_bvb_clock)")
        c8 == Step([c7 EXCEPT !.power.phy_enabled = TRUE], "phy_init")
        c9 == Step([c8 EXCEPT !.writes = @ + 1],
                   "HDMI_SCHEDULER_CONTROL |= MANUAL_FORMAT")
        c10 == Step(c9, "set_timings")
    IN  IF fail = "hsm_clock"
        THEN Failed("out", c, "Failed to set HSM clock rate")
        ELSE IF fail = "pm_runtime"
        THEN Failed("out", c1, "Failed to retain power domain")
        ELSE IF fail = "pixel_rate"
        THEN Failed("err_put_runtime_pm", c2,
                    "Failed to set pixel clock rate")
        ELSE IF fail = "pixel_clock"
        THEN Failed("err_put_runtime_pm", c3,
                    "Failed to turn on pixel clock")
        ELSE IF fail = "bvb_rate"
        THEN Failed("err_disable_pixel_clock", c5,
                    "Failed to set pixel bvb clock rate")
        ELSE IF fail = "pixel_bvb_clock"
        THEN Failed("err_disable_pixel_clock", c6,
                    "Failed to turn on pixel bvb clock")
        ELSE [ret |-> 0, c |-> c10]

vc4_hdmi_encoder_pre_crtc_enable(c) ==
    LET c1 == Step(c, "csc_setup")
        c2 == Step([c1 EXCEPT !.writes = @ + 1],
                   "HDMI_FIFO_CTL = MASTER_SLAVE_N")
    IN  c2

\* vc4_hdmi_recenter_fifo makes four writes of HDMI_FIFO_CTL.
vc4_hdmi_recenter_fifo(c) ==
    Step([c EXCEPT !.writes = @ + 4], "vc4_hdmi_recenter_fifo")

\* post_crtc_enable up to its call of vc4_hdmi_enable_scrambling.
vc4_hdmi_encoder_post_crtc_enable(c) ==
    LET c1 == Step([c EXCEPT !.writes = @ + 1], "HDMI_VID_CTL = ENABLE")
        c2 == Step([c1 EXCEPT !.writes = @ + 1], "HDMI_VID_CTL &= ~BLANKPIX")
        c3 == IF display_info.is_hdmi
              THEN Step([c2 EXCEPT !.writes = @ + 1],
                        "HDMI_SCHEDULER_CONTROL |= MODE_HDMI")
              ELSE Step(Step([c2 EXCEPT !.writes = @ + 2],
                             "HDMI_RAM_PACKET_CONFIG &= ~ENABLE"),
                        "HDMI_SCHEDULER_CONTROL &= ~MODE_HDMI")
        c4 == IF display_info.is_hdmi
              THEN Step(Step([c3 EXCEPT !.writes = @ + 1],
                             "HDMI_RAM_PACKET_CONFIG = ENABLE"),
                        "vc4_hdmi_set_infoframes")
              ELSE c3
        c5 == vc4_hdmi_recenter_fifo(c4)
    IN  Step(c5, "vc4_hdmi_enable_scrambling")

\* post_crtc_disable up to its call of vc4_hdmi_disable_scrambling.
vc4_hdmi_encoder_post_crtc_disable(c) ==
    LET c1 == Step([c EXCEPT !.writes = @ + 1], "HDMI_RAM_PACKET_CONFIG = 0")
        c2 == Step([c1 EXCEPT !.writes = @ + 1], "HDMI_VID_CTL |= CLRRGB")
        c3 == Step(c2, "mdelay(1)")
        c4 == Step([c3 EXCEPT !.writes = @ + 1], "HDMI_VID_CTL &= ~ENABLE")
    IN  Step(c4, "vc4_hdmi_disable_scrambling")

\* A power-down that releases the power domain first and the PHY last.
Mut_powerdown_power_first(c) ==
    LET c1 == Step([c EXCEPT !.writes = @ + 1], "HDMI_VID_CTL |= BLANKPIX")
        c2 == Step([c1 EXCEPT !.power.pm_usage = put_ref(@)],
                   "pm_runtime_put")
        c3 == Step([c2 EXCEPT !.power.pixel_clock = put_ref(@)],
                   "clk_disable_unprepare(pixel_clock)")
        c4 == Step([c3 EXCEPT !.power.pixel_bvb_clock = put_ref(@)],
                   "clk_disable_unprepare(pixel_bvb_clock)")
    IN  Step([c4 EXCEPT !.power.phy_enabled = FALSE], "phy_disable")

vc4_hdmi_encoder_post_crtc_powerdown(c) ==
    LET c1 == Step([c EXCEPT !.writes = @ + 1], "HDMI_VID_CTL |= BLANKPIX")
        c2 == Step([c1 EXCEPT !.power.phy_enabled = FALSE], "phy_disable")
        c3 == Step([c2 EXCEPT !.power.pixel_bvb_clock = put_ref(@)],
                   "clk_disable_unprepare(pixel_bvb_clock)")
        c4 == Step([c3 EXCEPT !.power.pixel_clock = put_ref(@)],
                   "clk_disable_unprepare(pixel_clock)")
    IN  Step([c4 EXCEPT !.power.pm_usage = put_ref(@)], "pm_runtime_put")

\* ------------------------------------------------------------------ Init

\* ------------------------------------------------- infoframes, packet RAM

\* wait_for() returns -ETIMEDOUT when its condition stayed false.
ETIMEDOUT == 110

\* Bytes of packet RAM per slot: nine 32-bit registers.
VC4_HDMI_PACKET_STRIDE == 36

\* The slots 0 .. MaxPacketId of the packet RAM are modelled.
MaxPacketId == 4

PacketIds == 0 .. MaxPacketId

\* The packet RAM as 32-bit registers, indexed by their offset from
\* HDMI_RAM_PACKET_START divided by four.
RamWords == 0 .. ((VC4_HDMI_PACKET_STRIDE * (MaxPacketId + 1)) \div 4 - 1)

\* A 32-bit register as its four bytes, least significant first.
ZeroWord == <<0, 0, 0, 0>>

\* The infoframe headers the HDMI helpers initialise: type, version and
\* payload length.
hdmi_avi_infoframe == [type |-> 130, version |-> 2, length |-> 13]
hdmi_spd_infoframe == [type |-> 131, version |-> 1, length |-> 25]
hdmi_audio_infoframe == [type |-> 132, version |-> 1, length |-> 10]

PayloadSeeds == {1, 200}

\* A frame with a payload of distinct bytes, some of them above 127.
Frame(header, seed) ==
    [type |-> header.type, version |-> header.version,
     length |-> header.length,
     payload |-> [i \in 1 .. header.length |-> (seed + 29 * i) % 256]]

Frames ==
    {Frame(h, s) :
        h \in {hdmi_avi_infoframe, hdmi_spd_infoframe, hdmi_audio_infoframe},
        s \in PayloadSeeds}

NoFrame == [type |-> 0, version |-> 0, length |-> 0, payload |-> <<>>]

RECURSIVE SumBytes(_, _)
SumBytes(buf, n) == IF n = 0 THEN 0 ELSE buf[n] + SumBytes(buf, n - 1)

\* hdmi_infoframe_pack: zeroes the buffer, writes the four header bytes and
\* the payload, and sets the checksum so that the bytes sum to 0 modulo 256.
hdmi_infoframe_pack(frame, size) ==
    LET len == 4 + frame.length
        raw == [i \in 1 .. size |->
                   IF i = 1 THEN frame.type
                   ELSE IF i = 2 THEN frame.version
                   ELSE IF i = 3 THEN frame.length
                   ELSE IF i = 4 THEN 0
                   ELSE IF i <= len THEN frame.payload[i - 4]
                   ELSE 0]
    IN  [len |-> len,
         buffer |-> [raw EXCEPT ![4] = (256 - (SumBytes(raw, len) % 256)) % 256]]

\* The packed buffer of each frame of the input set.
PackedFrames ==
    [frame \in Frames |-> hdmi_infoframe_pack(frame, VC4_HDMI_PACKET_STRIDE)]

PackedFrame(frame) ==
    IF frame \in Frames THEN PackedFrames[frame]
    ELSE hdmi_infoframe_pack(frame, VC4_HDMI_PACKET_STRIDE)

\* The packet RAM after the block's reset, every register holding fill.
\* enable is VC4_HDMI_RAM_PACKET_ENABLE of HDMI_RAM_PACKET_CONFIG, config the
\* packets whose bit is set in that register, status the packets whose bit is
\* set in HDMI_RAM_PACKET_STATUS.
PramAfterReset(fill) ==
    [ram |-> [w \in RamWords |-> fill],
     enable |-> FALSE,
     config |-> {},
     status |-> {},
     last |-> [frame |-> NoFrame, stop_ret |-> 0, start_ret |-> 0]]

\* A stop that waits for the packet to go idle before it clears the enable
\* bit, and leaves the bit set when the wait times out.
Mut_stop_packet_poll_first(p, type, poll, idle) ==
    LET packet_id == type - 128
        q == [p EXCEPT !.config = @ \ {packet_id}]
    IN  IF ~poll THEN [ret |-> 0, p |-> q]
        ELSE IF packet_id \notin p.status \/ idle
        THEN [ret |-> 0, p |-> [q EXCEPT !.status = @ \ {packet_id}]]
        ELSE [ret |-> -ETIMEDOUT, p |-> p]

\* Clears the enable bit of the packet in HDMI_RAM_PACKET_CONFIG and, with
\* poll, waits for its bit of HDMI_RAM_PACKET_STATUS to clear; idle tells
\* whether the hardware cleared it within the 100 ms.
vc4_hdmi_stop_packet(p, type, poll, idle) ==
    LET packet_id == type - 128
        q == [p EXCEPT !.config = @ \ {packet_id}]
    IN  IF ~poll THEN [ret |-> 0, p |-> q]
        ELSE IF packet_id \notin q.status \/ idle
        THEN [ret |-> 0, p |-> [q EXCEPT !.status = @ \ {packet_id}]]
        ELSE [ret |-> -ETIMEDOUT, p |-> q]

\* A register write that drops the byte shifted by 24.
Mut_RamWord_no_high_byte(buffer, k) ==
    LET i == 7 * (k \div 2) IN
    IF k % 2 = 0
    THEN <<buffer[i + 1], buffer[i + 2], buffer[i + 3], 0>>
    ELSE <<buffer[i + 4], buffer[i + 5], buffer[i + 6], 0>>

\* The value of the k-th writel of the packing loop: three bytes of the
\* buffer in the first register of a pair, four in the second.  C indexes
\* the buffer from 0, the model from 1.
RamWord(buffer, k) ==
    LET i == 7 * (k \div 2) IN
    IF k % 2 = 0
    THEN <<buffer[i + 1], buffer[i + 2], buffer[i + 3], 0>>
    ELSE <<buffer[i + 4], buffer[i + 5], buffer[i + 6], buffer[i + 7]>>

\* The section of vc4_hdmi_write_infoframe under hw_lock: the packing loop,
\* the loop that clears the rest of the slot, and the enable bit.
write_packet_ram(p, packet_id, pk) ==
    LET packet_reg == (VC4_HDMI_PACKET_STRIDE * packet_id) \div 4
        packet_reg_next == (VC4_HDMI_PACKET_STRIDE * (packet_id + 1)) \div 4
        packed_end == packet_reg + 2 * ((pk.len + 6) \div 7)
    IN  [p EXCEPT
           !.ram = [w \in RamWords |->
                       IF w >= packet_reg /\ w < packed_end
                       THEN RamWord(pk.buffer, w - packet_reg)
                       ELSE IF w >= packed_end /\ w < packet_reg_next
                       THEN ZeroWord
                       ELSE p.ram[w]],
           !.config = @ \cup {packet_id}]

\* The wait for the packet's status bit after the enable bit was set; active
\* tells whether the hardware set it within the 100 ms.
wait_for_packet_start(p, packet_id, active) ==
    IF packet_id \in p.status \/ active
    THEN [ret |-> 0, p |-> [p EXCEPT !.status = @ \cup {packet_id}]]
    ELSE [ret |-> -ETIMEDOUT, p |-> p]

\* A write that goes on after a failed stop.
Mut_write_infoframe_ignores_stop(p, frame, idle, active) ==
    LET packet_id == frame.type - 128
        pk == PackedFrame(frame)
        s == vc4_hdmi_stop_packet(p, frame.type, TRUE, idle)
        w == wait_for_packet_start(write_packet_ram(s.p, packet_id, pk),
                                   packet_id, active)
    IN  [w.p EXCEPT !.last = [frame |-> frame, stop_ret |-> s.ret,
                              start_ret |-> w.ret]]

\* vc4_hdmi_write_infoframe.  The function returns nothing; last records
\* the frame and what its two polls returned.
vc4_hdmi_write_infoframe(p, frame, idle, active) ==
    LET packet_id == frame.type - 128
        pk == PackedFrame(frame)
        s == vc4_hdmi_stop_packet(p, frame.type, TRUE, idle)
    IN  IF pk.len < 0 THEN p
        ELSE IF s.ret # 0
        THEN [s.p EXCEPT !.last = [frame |-> frame, stop_ret |-> s.ret,
                                   start_ret |-> 0]]
        ELSE
        LET w == wait_for_packet_start(write_packet_ram(s.p, packet_id, pk),
                                       packet_id, active)
        IN  [w.p EXCEPT !.last = [frame |-> frame, stop_ret |-> 0,
                                  start_ret |-> w.ret]]

\* -------------------------------------- registers, audio state and locks

\* Register fields are given as <<high bit, low bit>>.  VC4_SET_FIELD shifts
\* the value to the field and masks it; VC4_GET_FIELD reads the field back.
VC4_SET_FIELD(value, field) ==
    (value * 2 ^ field[2]) % 2 ^ (field[1] + 1)

VC4_GET_FIELD(word, field) ==
    (word % 2 ^ (field[1] + 1)) \div 2 ^ field[2]

\* word with the bits of field cleared.
ClearField(word, field) ==
    word - VC4_SET_FIELD(VC4_GET_FIELD(word, field), field)

BIT(n) == 2 ^ n

VC4_HDMI_HORZA_VPOS == BIT(14)
VC4_HDMI_HORZA_HPOS == BIT(13)
VC4_HDMI_HORZA_HAP == <<12, 0>>
VC4_HDMI_HORZB_HBP == <<29, 20>>
VC4_HDMI_HORZB_HSP == <<19, 10>>
VC4_HDMI_HORZB_HFP == <<9, 0>>
VC4_HDMI_MISC_CONTROL_PIXEL_REP == <<3, 0>>

VC5_HDMI_HORZA_HFP == <<28, 16>>
VC5_HDMI_HORZA_VPOS == BIT(15)
VC5_HDMI_HORZA_HPOS == BIT(14)
VC5_HDMI_HORZA_HAP == <<13, 0>>
VC5_HDMI_HORZB_HBP == <<26, 16>>
VC5_HDMI_HORZB_HSP == <<10, 0>>
VC5_HDMI_MISC_CONTROL_PIXEL_REP == <<3, 0>>
VC5_HDMI_DEEP_COLOR_CONFIG_1_INIT_PACK_PHASE == <<10, 8>>
VC5_HDMI_DEEP_COLOR_CONFIG_1_COLOR_DEPTH == <<3, 0>>
VC5_HDMI_GCP_WORD_1_GCP_SUBPACKET_BYTE_1 == <<15, 8>>

\* DRM_MODE_FLAG_PHSYNC and DRM_MODE_FLAG_PVSYNC of the modes of the input
\* sets: the CEA modes 16 and 97 and the 1366x768 mode have both positive.
PositiveSync(mode) ==
    [h |-> mode \in {Mode1366x768, Mode1080p60, Mode1440p60, Mode2160p60},
     v |-> mode \in {Mode1366x768, Mode1080p60, Mode2160p60}]

\* The CSC coefficient matrices, three rows of four 16-bit words.
vc4_hdmi_csc_full_rgb_to_limited_rgb ==
    <<<<0, 0, 1760, 256>>, <<0, 1760, 0, 256>>, <<1760, 0, 0, 256>>>>

vc5_hdmi_csc_full_rgb_unity ==
    <<<<8192, 0, 0, 0>>, <<0, 8192, 0, 0>>, <<0, 0, 8192, 0>>>>

vc5_hdmi_csc_full_rgb_to_limited_rgb ==
    <<<<7040, 0, 0, 1024>>, <<0, 7040, 0, 1024>>, <<0, 0, 7040, 1024>>>>

vc5_hdmi_csc_full_rgb_to_limited_yuv422_bt709 ==
    <<<<1490, 5012, 506, 1024>>, <<64716, 62774, 3584, 8192>>,
      <<3584, 62282, 65208, 8192>>>>

vc5_hdmi_csc_full_rgb_to_limited_yuv444_bt709 ==
    <<<<64716, 62774, 3584, 8192>>, <<3584, 62282, 65208, 8192>>,
      <<1490, 5012, 506, 1024>>>>

\* The six CSC registers HDMI_CSC_12_11 .. HDMI_CSC_34_33 as written from a
\* matrix: each holds two coefficients, (high << 16) | low, kept as the pair
\* <<low, high>>.
vc5_hdmi_set_csc_coeffs(coeffs) ==
    <<<<coeffs[1][1], coeffs[1][2]>>, <<coeffs[1][3], coeffs[1][4]>>,
      <<coeffs[2][1], coeffs[2][2]>>, <<coeffs[2][3], coeffs[2][4]>>,
      <<coeffs[3][1], coeffs[3][2]>>, <<coeffs[3][3], coeffs[3][4]>>>>

\* The registers and driver fields the timing programmer, the colorspace
\* converter setup and the audio callbacks write, as the reset leaves them.
DevAfterBind ==
    [horza |-> 0, horzb |-> 0, misc_control |-> 0,
     deep_color_config_1 |-> 0, gcp_word_1 |-> 0, gcp_enable |-> FALSE,
     csc |-> vc5_hdmi_set_csc_coeffs(
                 <<<<0, 0, 0, 0>>, <<0, 0, 0, 0>>, <<0, 0, 0, 0>>>>),
     csc_ctl |-> {},
     mai_ctl |-> {}, mai_fmt |-> 0, mai_channel_map |-> 0,
     crp_cfg |-> 0, cts_0 |-> 0, cts_1 |-> 0,
     nwrites |-> 0,
     packet_ram_enabled |-> FALSE,
     audio |-> [streaming |-> FALSE, ret |-> 0, channels |-> 0]]

\* drm_default_rgb_quant_range: limited for every CEA mode but VIC 1.
drm_default_rgb_quant_range(mode) ==
    IF drm_match_cea_mode(mode) > 1 THEN "LIMITED" ELSE "FULL"

\* A range test that leaves the sink's is_hdmi flag out.
Mut_is_full_range_rgb_no_dvi_test(mode) ==
    drm_default_rgb_quant_range(mode) = "FULL"

vc4_hdmi_is_full_range_rgb(mode) ==
    \/ ~display_info.is_hdmi
    \/ drm_default_rgb_quant_range(mode) = "FULL"

\* vc4_hdmi_set_timings.  The four vertical registers are written too;
\* their contents are not kept.
vc4_hdmi_set_timings(d, state, mode) ==
    LET pixel_rep == IF mode.dblclk THEN 2 ELSE 1
        sync == PositiveSync(mode)
    IN  [d EXCEPT
           !.horza =
               (IF sync.v THEN VC4_HDMI_HORZA_VPOS ELSE 0)
               + (IF sync.h THEN VC4_HDMI_HORZA_HPOS ELSE 0)
               + VC4_SET_FIELD(mode.hdisplay * pixel_rep, VC4_HDMI_HORZA_HAP),
           !.horzb =
               VC4_SET_FIELD((mode.htotal - mode.hsync_end) * pixel_rep,
                             VC4_HDMI_HORZB_HBP)
               + VC4_SET_FIELD((mode.hsync_end - mode.hsync_start)
                                   * pixel_rep, VC4_HDMI_HORZB_HSP)
               + VC4_SET_FIELD((mode.hsync_start - mode.hdisplay)
                                   * pixel_rep, VC4_HDMI_HORZB_HFP),
           !.misc_control =
               ClearField(@, VC4_HDMI_MISC_CONTROL_PIXEL_REP)
               + VC4_SET_FIELD(pixel_rep - 1,
                               VC4_HDMI_MISC_CONTROL_PIXEL_REP),
           !.nwrites = @ + 7]

\* A timing programmer that leaves the pixel repetition out of HORZA.
Mut_vc5_set_timings_hap_unscaled(d, state, mode) ==
    LET pixel_rep == IF mode.dblclk THEN 2 ELSE 1
    IN  [d EXCEPT
           !.horza = VC4_SET_FIELD(mode.hdisplay, VC5_HDMI_HORZA_HAP),
           !.misc_control =
               ClearField(@, VC5_HDMI_MISC_CONTROL_PIXEL_REP)
               + VC4_SET_FIELD(pixel_rep - 1,
                               VC5_HDMI_MISC_CONTROL_PIXEL_REP),
           !.nwrites = @ + 11]

\* A depth code that follows the bpc for YUV 4:2:2 too.
Mut_vc5_hdmi_gcp_yuv422_deep(state) ==
    [gcp |-> IF state.output_bpc = 12 THEN 6
             ELSE IF state.output_bpc = 10 THEN 5
             ELSE 4,
     gcp_en |-> state.output_bpc \in {10, 12}]

\* The color depth code and the GCP enable of vc5_hdmi_set_timings: the
\* switch on output_bpc, then the YUV 4:2:2 override.
vc5_hdmi_gcp(state) ==
    LET yuv422 == state.output_format = VC4_HDMI_OUTPUT_YUV422
    IN  [gcp |-> IF yuv422 THEN 4
                 ELSE IF state.output_bpc = 12 THEN 6
                 ELSE IF state.output_bpc = 10 THEN 5
                 ELSE 4,
         gcp_en |-> ~yuv422 /\ state.output_bpc \in {10, 12}]

\* vc5_hdmi_set_timings, with the deep-color General Control Packet.
vc5_hdmi_set_timings(d, state, mode) ==
    LET pixel_rep == IF mode.dblclk THEN 2 ELSE 1
        sync == PositiveSync(mode)
        gcp == vc5_hdmi_gcp(state).gcp
        gcp_en == vc5_hdmi_gcp(state).gcp_en
    IN  [d EXCEPT
           !.horza =
               (IF sync.v THEN VC5_HDMI_HORZA_VPOS ELSE 0)
               + (IF sync.h THEN VC5_HDMI_HORZA_HPOS ELSE 0)
               + VC4_SET_FIELD(mode.hdisplay * pixel_rep, VC5_HDMI_HORZA_HAP)
               + VC4_SET_FIELD((mode.hsync_start - mode.hdisplay)
                                   * pixel_rep, VC5_HDMI_HORZA_HFP),
           !.horzb =
               VC4_SET_FIELD((mode.htotal - mode.hsync_end) * pixel_rep,
                             VC5_HDMI_HORZB_HBP)
               + VC4_SET_FIELD((mode.hsync_end - mode.hsync_start)
                                   * pixel_rep, VC5_HDMI_HORZB_HSP),
           !.deep_color_config_1 =
               ClearField(
                   ClearField(@, VC5_HDMI_DEEP_COLOR_CONFIG_1_INIT_PACK_PHASE),
                   VC5_HDMI_DEEP_COLOR_CONFIG_1_COLOR_DEPTH)
               + VC4_SET_FIELD(2, VC5_HDMI_DEEP_COLOR_CONFIG_1_INIT_PACK_PHASE)
               + VC4_SET_FIELD(gcp, VC5_HDMI_DEEP_COLOR_CONFIG_1_COLOR_DEPTH),
           !.gcp_word_1 =
               ClearField(@, VC5_HDMI_GCP_WORD_1_GCP_SUBPACKET_BYTE_1)
               + VC4_SET_FIELD(gcp, VC5_HDMI_GCP_WORD_1_GCP_SUBPACKET_BYTE_1),
           !.gcp_enable = gcp_en,
           !.misc_control =
               ClearField(@, VC5_HDMI_MISC_CONTROL_PIXEL_REP)
               + VC4_SET_FIELD(pixel_rep - 1,
                               VC5_HDMI_MISC_CONTROL_PIXEL_REP),
           !.nwrites = @ + 11]

\* vc4_hdmi->variant->set_timings.
variant_set_timings(d, state, mode) ==
    IF variant = bcm2835_variant
    THEN vc4_hdmi_set_timings(d, state, mode)
    ELSE vc5_hdmi_set_timings(d, state, mode)

\* vc4_hdmi_csc_setup: the matrix registers are written for limited range
\* only, HDMI_CSC_CTL always.  The output format is not looked at.
vc4_hdmi_csc_setup(d, state, mode) ==
    IF ~vc4_hdmi_is_full_range_rgb(mode)
    THEN [d EXCEPT
            !.csc = vc5_hdmi_set_csc_coeffs(
                        vc4_hdmi_csc_full_rgb_to_limited_rgb),
            !.csc_ctl = {"ORDER_BGR", "ENABLE", "RGB2YCC", "MODE_CUSTOM"},
            !.nwrites = @ + 7]
    ELSE [d EXCEPT !.csc_ctl = {"ORDER_BGR"}, !.nwrites = @ + 1]

\* vc5_hdmi_csc_setup: the matrix by output format, then the four control
\* registers.
vc5_hdmi_csc_setup(d, state, mode) ==
    LET fmt == state.output_format
        coeffs ==
            IF fmt = VC4_HDMI_OUTPUT_YUV444
            THEN vc5_hdmi_csc_full_rgb_to_limited_yuv444_bt709
            ELSE IF fmt = VC4_HDMI_OUTPUT_YUV422
            THEN vc5_hdmi_csc_full_rgb_to_limited_yuv422_bt709
            ELSE IF ~vc4_hdmi_is_full_range_rgb(mode)
            THEN vc5_hdmi_csc_full_rgb_to_limited_rgb
            ELSE vc5_hdmi_csc_full_rgb_unity
        known == fmt \in {VC4_HDMI_OUTPUT_YUV444, VC4_HDMI_OUTPUT_YUV422,
                          VC4_HDMI_OUTPUT_RGB}
    IN  [d EXCEPT
           !.csc = IF known THEN vc5_hdmi_set_csc_coeffs(coeffs) ELSE @,
           !.csc_ctl =
               {"ENABLE", "MODE_CUSTOM"} \cup
               (IF fmt = VC4_HDMI_OUTPUT_YUV422
                THEN {"FILTER_MODE_444_TO_422_STANDARD", "USE_444_TO_422",
                      "USE_RNG_SUPPRESSION"}
                ELSE {}),
           !.nwrites = @ + (IF known THEN 6 ELSE 0) + 4]

\* vc4_hdmi->variant->csc_setup.
variant_csc_setup(d, state, mode) ==
    IF variant = bcm2835_variant
    THEN vc4_hdmi_csc_setup(d, state, mode)
    ELSE vc5_hdmi_csc_setup(d, state, mode)

\* enum hdmi_colorspace as the AVI infoframe carries it.
vc4_hdmi_avi_infoframe_colorspace(fmt) ==
    CASE fmt = VC4_HDMI_OUTPUT_RGB -> 0
      [] fmt = VC4_HDMI_OUTPUT_YUV422 -> 1
      [] fmt = VC4_HDMI_OUTPUT_YUV444 -> 2
      [] OTHER -> 3

\* The AVI infoframe vc4_hdmi_set_avi_infoframe fills: the colorspace in
\* bits 5-6 of payload byte 1, the quantization range (1 limited, 2 full) in
\* bits 2-3 of byte 3, the VIC in byte 4.
avi_infoframe(mode, fmt) ==
    [type |-> hdmi_avi_infoframe.type,
     version |-> hdmi_avi_infoframe.version,
     length |-> hdmi_avi_infoframe.length,
     payload |->
         [i \in 1 .. hdmi_avi_infoframe.length |->
             IF i = 1 THEN vc4_hdmi_avi_infoframe_colorspace(fmt) * 32
             ELSE IF i = 3
             THEN (IF vc4_hdmi_is_full_range_rgb(mode) THEN 2 ELSE 1) * 4
             ELSE IF i = 4 THEN drm_match_cea_mode(mode)
             ELSE 0]]

\* hdmi_spd_infoframe_init(&frame.spd, "Broadcom", "Videocore") with sdi
\* HDMI_SPD_SDI_PC: vendor in 8 bytes, product in 16, then the sdi byte.
spd_infoframe ==
    [type |-> hdmi_spd_infoframe.type,
     version |-> hdmi_spd_infoframe.version,
     length |-> hdmi_spd_infoframe.length,
     payload |-> <<66, 114, 111, 97, 100, 99, 111, 109,
                   86, 105, 100, 101, 111, 99, 111, 114, 101,
                   0, 0, 0, 0, 0, 0, 0, 9>>]

\* vc4_hdmi->audio.infoframe as copied from params->cea: the channel count
\* less one in payload byte 1.
audio_infoframe(channels) ==
    [type |-> hdmi_audio_infoframe.type,
     version |-> hdmi_audio_infoframe.version,
     length |-> hdmi_audio_infoframe.length,
     payload |-> [i \in 1 .. hdmi_audio_infoframe.length |->
                     IF i = 1 /\ channels > 0 THEN channels - 1 ELSE 0]]

\* What the hardware answers to the two polls of an infoframe write: whether
\* the packet went idle, and whether it started.
Polls == BOOLEAN \X BOOLEAN

\* An audio infoframe written whether the packet RAM is on or not.
Mut_set_audio_infoframe_unguarded(p, d, poll) ==
    vc4_hdmi_write_infoframe(p, audio_infoframe(d.audio.channels),
                             poll[1], poll[2])

\* vc4_hdmi_set_audio_infoframe: nothing is written while the packet RAM
\* is off.
vc4_hdmi_set_audio_infoframe(p, d, poll) ==
    IF d.packet_ram_enabled
    THEN vc4_hdmi_write_infoframe(p, audio_infoframe(d.audio.channels),
                                  poll[1], poll[2])
    ELSE p

\* vc4_hdmi_set_infoframes: AVI, SPD and, with an audio stream open, audio.
\* No HDR metadata is attached to the connector state.  polls gives what
\* the hardware answers to the two polls of each write.
vc4_hdmi_set_infoframes(p, d, state, mode, polls) ==
    LET p1 == vc4_hdmi_write_infoframe(
                  p, avi_infoframe(mode, state.output_format),
                  polls[1][1], polls[1][2])
        p2 == vc4_hdmi_write_infoframe(p1, spd_infoframe,
                                       polls[2][1], polls[2][2])
    IN  IF d.audio.streaming
        THEN vc4_hdmi_set_audio_infoframe(p2, d, polls[3])
        ELSE p2

\* ------------------------------------------------------------------ audio

ENODEV == 19

VC4_HDMI_CRP_CFG_EXTERNAL_CTS_EN == BIT(24)
VC4_HDMI_CRP_CFG_N == <<19, 0>>

\* Quotient and remainder of a * b by d for a < d, by doubling: no value
\* formed exceeds 2 * d.
RECURSIVE MulQuoRem(_, _, _)
MulQuoRem(a, b, d) ==
    IF b = 0 THEN [q |-> 0, r |-> 0]
    ELSE LET half == MulQuoRem(a, b \div 2, d)
             r2 == 2 * half.r
             q2 == 2 * half.q + (IF r2 >= d THEN 1 ELSE 0)
             m2 == IF r2 >= d THEN r2 - d ELSE r2
             r3 == IF b % 2 = 1 THEN m2 + a ELSE m2
         IN  [q |-> q2 + (IF r3 >= d THEN 1 ELSE 0),
              r |-> IF r3 >= d THEN r3 - d ELSE r3]

\* do_div((u64)a * b, d): the 64-bit product divided by d.
MulDiv64(a, b, d) == (a \div d) * b + MulQuoRem(a % d, b, d).q

\* An N that is right for 48 kHz only.
Mut_audio_n_fixed(samplerate) == 6144

\* n = 128 * samplerate / 1000
audio_n(samplerate) == (128 * samplerate) \div 1000

\* vc4_hdmi_set_n_cts: N and CTS from the sample rate and the clock of the
\* saved mode, CTS to both CTS registers.
vc4_hdmi_set_n_cts(d, samplerate, mode) ==
    LET n == audio_n(samplerate)
        cts == MulDiv64(mode.clock * 1000, n, 128 * samplerate)
    IN  [d EXCEPT
           !.crp_cfg = VC4_HDMI_CRP_CFG_EXTERNAL_CTS_EN
                       + VC4_SET_FIELD(n, VC4_HDMI_CRP_CFG_N),
           !.cts_0 = cts,
           !.cts_1 = cts,
           !.nwrites = @ + 3]

RECURSIVE channel_map_sum(_, _)
channel_map_sum(channels, width) ==
    IF channels = 0 THEN 0
    ELSE (channels - 1) * 2 ^ (width * (channels - 1))
         + channel_map_sum(channels - 1, width)

\* vc4_hdmi->variant->channel_map for the mask GENMASK(channels - 1, 0):
\* channel i in a slot of 3 bits on the first generation, of 4 on the second.
variant_channel_map(channels) ==
    channel_map_sum(channels, IF variant = bcm2835_variant THEN 3 ELSE 4)

\* sample_rate_to_mai_fmt: the position of the rate in enum
\* vc4_hdmi_mai_sample_rate, 0 (not indicated) for any other rate.
sample_rate_to_mai_fmt(samplerate) ==
    LET rates == <<8000, 11025, 12000, 16000, 22050, 24000, 32000, 44100,
                   48000, 64000, 88200, 96000, 128000, 176400, 192000>>
        found == {k \in 1 .. Len(rates) : rates[k] = samplerate}
    IN  IF found = {} THEN 0 ELSE CHOOSE k \in found : TRUE

\* A test that lets every sink stream.
Mut_audio_can_stream_always(info) == TRUE

vc4_hdmi_audio_can_stream(info) == info.is_hdmi

\* vc4_hdmi_audio_startup.  The PHY's rng routine is not modelled.
vc4_hdmi_audio_startup(d) ==
    IF ~vc4_hdmi_audio_can_stream(display_info)
    THEN [d EXCEPT !.audio.ret = -ENODEV]
    ELSE [d EXCEPT
            !.audio.streaming = TRUE,
            !.audio.ret = 0,
            !.mai_ctl = {"RESET", "FLUSH", "DLATE", "ERRORE", "ERRORF"},
            !.nwrites = @ + 1]

\* vc4_hdmi_audio_shutdown with its vc4_hdmi_audio_reset: four writes of
\* HDMI_MAI_CTL, the last one of FLUSH.
vc4_hdmi_audio_shutdown(d) ==
    [d EXCEPT
       !.audio.streaming = FALSE,
       !.mai_ctl = {"FLUSH"},
       !.nwrites = @ + 4]

\* vc4_hdmi_audio_prepare up to its call of vc4_hdmi_set_audio_infoframe:
\* HDMI_MAI_SMP, HDMI_MAI_CTL, HDMI_MAI_FMT, HDMI_MAI_THR, HDMI_MAI_CONFIG,
\* HDMI_MAI_CHANNEL_MAP, HDMI_AUDIO_PACKET_CONFIG and the three registers of
\* vc4_hdmi_set_n_cts.
vc4_hdmi_audio_prepare(d, sample_rate, channels, mode) ==
    IF ~vc4_hdmi_audio_can_stream(display_info)
    THEN [d EXCEPT !.audio.ret = -EINVAL]
    ELSE LET d1 == [d EXCEPT
                      !.mai_ctl = {"WHOLSMP", "CHALIGN", "ENABLE"},
                      !.mai_fmt = sample_rate_to_mai_fmt(sample_rate),
                      !.mai_channel_map = variant_channel_map(channels),
                      !.audio.channels = channels,
                      !.audio.ret = 0,
                      !.nwrites = @ + 7]
         IN  vc4_hdmi_set_n_cts(d1, sample_rate, mode)

\* ------------------------------------------------------------------ locks

\* The contexts that run driver code at the same time: the KMS context
\* (atomic commit with the encoder hooks, connector probe), the ALSA
\* callbacks, the threaded handler of the hotplug interrupts, the CEC
\* interrupt handler and the CEC framework calling the adapter operations.
Threads == {"commit", "audio", "hpd", "cec", "cec_adap"}

\* The contexts an interrupt starts.
IrqThreads == {"hpd", "cec"}

\* spin_lock_irqsave(&vc4_hdmi->hw_lock) .. spin_unlock_irqrestore() around
\* register accesses.
HwSection == <<"spin_lock", "spin_unlock">>

\* vc4_hdmi_stop_packet: the packet is disabled in RAM_PACKET_CONFIG inside
\* the register section; the poll follows outside it.
vc4_hdmi_stop_packet_locks == <<"spin_lock", "packet_stop", "spin_unlock">>

\* vc4_hdmi_write_infoframe: the stop, then the packet RAM words and the
\* enable bit inside one register section, then the poll.
vc4_hdmi_write_infoframe_locks ==
    <<"packet_begin">> \o vc4_hdmi_stop_packet_locks
        \o <<"spin_lock", "ram_write", "spin_unlock", "packet_end">>

\* A prepare that takes the register lock before the mutex.
Mut_audio_prepare_locks_spin_first ==
    <<"spin_lock", "mutex_lock", "spin_unlock">>
        \o vc4_hdmi_write_infoframe_locks \o <<"mutex_unlock">>

\* vc4_hdmi_audio_prepare on an HDMI sink: vc4_hdmi_audio_set_mai_clock, the
\* MAI and clock-recovery registers, vc4_hdmi_set_audio_infoframe.
vc4_hdmi_audio_prepare_locks ==
    <<"mutex_lock">> \o HwSection \o HwSection
        \o vc4_hdmi_write_infoframe_locks \o <<"mutex_unlock">>

\* A shutdown that stops the audio packet without the mutex.
Mut_audio_shutdown_locks_no_mutex ==
    HwSection \o <<"packet_begin">> \o vc4_hdmi_stop_packet_locks
        \o <<"packet_end">> \o HwSection

\* vc4_hdmi_audio_shutdown with vc4_hdmi_audio_reset.
vc4_hdmi_audio_shutdown_locks ==
    <<"mutex_lock">> \o HwSection
        \o <<"packet_begin">> \o vc4_hdmi_stop_packet_locks
        \o <<"packet_end">> \o HwSection \o <<"mutex_unlock">>

\* An adapter enable that takes the mutex its comment says it should.
Mut_cec_enable_locks_with_mutex ==
    <<"mutex_lock">> \o HwSection \o <<"mutex_unlock">>

\* vc4_hdmi_cec_enable: the register lock only.  vc4_hdmi_cec_disable,
\* vc4_hdmi_cec_adap_log_addr and vc4_hdmi_cec_adap_transmit make the same
\* lock operations.
vc4_hdmi_cec_enable_locks == HwSection

\* cec_s_phys_addr_from_edid as called with vc4_hdmi->mutex held: the CEC
\* framework calls the adapter's enable operation in the caller's context.
cec_s_phys_addr_from_edid_locks ==
    <<"cec_begin">> \o vc4_hdmi_cec_enable_locks \o <<"cec_end">>

\* vc4_hdmi_connector_detect on a sink newly connected: the hotplug
\* register read, the physical address update and
\* vc4_hdmi_enable_scrambling.
vc4_hdmi_connector_detect_locks ==
    <<"mutex_lock">> \o HwSection \o cec_s_phys_addr_from_edid_locks
        \o HwSection \o <<"mutex_unlock">>

\* vc4_hdmi_connector_get_modes.
vc4_hdmi_connector_get_modes_locks ==
    <<"mutex_lock">> \o cec_s_phys_addr_from_edid_locks
        \o <<"mutex_unlock">>

\* The lock and packet operations of each entry point, in program order, on
\* the path that makes every call (HDMI sink, audio stream open, no error).
LockProgram(handler) ==
    CASE handler = "vc4_hdmi_encoder_pre_crtc_configure" ->
             <<"mutex_lock">> \o HwSection \o HwSection \o <<"mutex_unlock">>
      [] handler = "vc4_hdmi_encoder_pre_crtc_enable" ->
             <<"mutex_lock">> \o HwSection \o HwSection \o <<"mutex_unlock">>
      [] handler = "vc4_hdmi_encoder_post_crtc_enable" ->
             <<"mutex_lock">> \o HwSection \o HwSection
                 \o vc4_hdmi_write_infoframe_locks
                 \o vc4_hdmi_write_infoframe_locks
                 \o vc4_hdmi_write_infoframe_locks
                 \o HwSection \o HwSection \o HwSection
                 \o <<"mutex_unlock">>
      [] handler = "vc4_hdmi_encoder_post_crtc_disable" ->
             <<"mutex_lock">> \o HwSection \o HwSection \o HwSection
                 \o <<"mutex_unlock">>
      [] handler = "vc4_hdmi_encoder_post_crtc_powerdown" ->
             <<"mutex_lock">> \o HwSection \o <<"mutex_unlock">>
      [] handler = "vc4_hdmi_audio_startup" ->
             <<"mutex_lock">> \o HwSection \o <<"mutex_unlock">>
      [] handler = "vc4_hdmi_audio_prepare" -> vc4_hdmi_audio_prepare_locks
      [] handler = "vc4_hdmi_audio_shutdown" -> vc4_hdmi_audio_shutdown_locks
      [] handler = "vc4_hdmi_hpd_irq_thread" ->
             vc4_hdmi_connector_detect_locks
      [] handler = "vc4_cec_irq_handler" -> HwSection
      [] handler = "vc4_hdmi_connector_detect" ->
             vc4_hdmi_connector_detect_locks
      [] handler = "vc4_hdmi_connector_get_modes" ->
             vc4_hdmi_connector_get_modes_locks
      [] handler = "vc4_hdmi_cec_adap_enable" -> vc4_hdmi_cec_enable_locks
      [] handler = "vc4_hdmi_cec_adap_log_addr" -> HwSection
      [] handler = "vc4_hdmi_cec_adap_transmit" -> HwSection
      [] OTHER -> <<>>

\* The entry points each context runs.
Handlers(t) ==
    CASE t = "commit" -> {"vc4_hdmi_encoder_pre_crtc_configure",
                          "vc4_hdmi_encoder_pre_crtc_enable",
                          "vc4_hdmi_encoder_post_crtc_enable",
                          "vc4_hdmi_encoder_post_crtc_disable",
                          "vc4_hdmi_encoder_post_crtc_powerdown",
                          "vc4_hdmi_connector_detect",
                          "vc4_hdmi_connector_get_modes"}
      [] t = "audio" -> {"vc4_hdmi_audio_startup", "vc4_hdmi_audio_prepare",
                         "vc4_hdmi_audio_shutdown"}
      [] t = "hpd" -> {"vc4_hdmi_hpd_irq_thread"}
      [] t = "cec" -> {"vc4_cec_irq_handler"}
      [] t = "cec_adap" -> {"vc4_hdmi_cec_adap_enable",
                            "vc4_hdmi_cec_adap_log_addr",
                            "vc4_hdmi_cec_adap_transmit"}

\* A context outside the driver.
Returned == [handler |-> "none", i |-> 0]

\* No lock held, no context inside the driver.
ThreadsIdle ==
    [mutex |-> "free", hw_lock |-> "free", at |-> [t \in Threads |-> Returned]]

\* The operation context t is about to make, "none" outside the driver.
NextOp(t) ==
    IF thr.at[t].handler = "none" THEN "none"
    ELSE LockProgram(thr.at[t].handler)[thr.at[t].i + 1]

\* Context t is inside vc4_hdmi_write_infoframe or a packet stop.
InPacketOp(t) ==
    LET prog == LockProgram(thr.at[t].handler)
        done == {k \in 1 .. thr.at[t].i : TRUE}
    IN  Cardinality({k \in done : prog[k] = "packet_begin"})
            > Cardinality({k \in done : prog[k] = "packet_end"})

\* Context t is inside an adapter operation of the CEC framework, called
\* directly or through the physical address update.
InCecAdapOp(t) ==
    LET prog == LockProgram(thr.at[t].handler)
        done == 1 .. thr.at[t].i
    IN  \/ t = "cec_adap" /\ thr.at[t] # Returned
        \/ Cardinality({k \in done : prog[k] = "cec_begin"})
               > Cardinality({k \in done : prog[k] = "cec_end"})

\* The lock state after context t has made the operation op.
LockOp(t, op) ==
    LET at == thr.at[t]
        last == at.i + 1 = Len(LockProgram(at.handler))
        th == [thr EXCEPT !.at[t] = IF last THEN Returned
                                    ELSE [at EXCEPT !.i = @ + 1]]
    IN  CASE op = "mutex_lock" -> [th EXCEPT !.mutex = t]
          [] op = "mutex_unlock" -> [th EXCEPT !.mutex = "free"]
          [] op = "spin_lock" -> [th EXCEPT !.hw_lock = t]
          [] op = "spin_unlock" -> [th EXCEPT !.hw_lock = "free"]
          [] OTHER -> th

\* Context t can make its next operation: a lock must be free to be taken.
CanStep(t) ==
    /\ NextOp(t) # "none"
    /\ NextOp(t) = "mutex_lock" => thr.mutex = "free"
    /\ NextOp(t) = "spin_lock" => thr.hw_lock = "free"

\* After vc4_hdmi_bind: no clock enabled by the encoder path, the power
\* reference of bind put back, the delayed work initialised, and scdc_enabled
\* set on the variant that can exceed 340 MHz.
InitHdmi ==
    /\ power = [hsm_min_rate |-> 0, pm_usage |-> 0,
                pixel_rate |-> 0, pixel_clock |-> 0,
                bvb_min_rate |-> 0, pixel_bvb_clock |-> 0,
                phy_enabled |-> FALSE,
                detect |-> [acquired |-> FALSE, hotplug_read |-> FALSE]]
    /\ trace = <<>>
    /\ epc = "off"
    /\ cfg_ret = 0
    /\ hdmi = [scdc_enabled |->
                   variant.max_pixel_clock > HDMI_14_MAX_TMDS_CLK,
               scrambling_work |-> [pending |-> 0, delay |-> 0,
                                    running |-> FALSE],
               scrambler_ctl_enable |-> FALSE,
               scdc |-> [high_tmds_clock_ratio |-> FALSE,
                         scrambling |-> FALSE],
               scdc_writes |-> 0]
    /\ calls = [enables |-> 0, detects |-> 0, checks |-> 0, audio |-> 0]

\* Nothing written to the packet RAM or the registers yet, no audio stream
\* open, both locks free.
InitDev ==
    /\ pram = PramAfterReset(ZeroWord)
    /\ dev = DevAfterBind
    /\ thr = ThreadsIdle

Init ==
    /\ variant \in Variants
    /\ disable_4kp60 \in
           IF variant.max_pixel_clock = 600000000 THEN BOOLEAN ELSE {FALSE}
    /\ disable_wifi_frequencies \in BOOLEAN
    /\ display_info \in DisplayInfos
    /\ conn_state = ResetState
    /\ vc4_state = ResetState
    /\ adjusted_mode = Mode640x480
    /\ mode_changed = FALSE
    /\ ret = 0
    /\ pc = "idle"
    /\ saved = [mode |-> Mode640x480, output_bpc |-> 0,
                output_format |-> VC4_HDMI_OUTPUT_RGB]
    /\ hw_writes = 0
    /\ ncommits = 0
    /\ InitHdmi
    /\ InitDev

\* --------------------------------------------------------------- actions

\* An atomic check of a state requesting mode with max_bpc.
AtomicCheck(mode, max_bpc) ==
    /\ pc = "idle"
    /\ LET new == vc4_hdmi_connector_duplicate_state(conn_state, max_bpc)
           r == vc4_hdmi_encoder_atomic_check(conn_state, new, mode, FALSE)
       IN  /\ vc4_state' = r.st
           /\ adjusted_mode' = r.mode
           /\ mode_changed' = r.mode_changed
           /\ ret' = r.ret
    /\ pc' = "checked"
    /\ UNCHANGED <<variant, disable_4kp60, disable_wifi_frequencies,
                   display_info, conn_state, saved, hw_writes, ncommits>>
    /\ UNCHANGED <<hdmivars, devvars>>

\* The commit of a checked state: the new state becomes the connector's
\* state and vc4_hdmi_encoder_atomic_mode_set saves what the enable path
\* reads.
AtomicModeSet ==
    /\ pc = "checked"
    /\ ret = 0
    /\ ncommits < MaxCommits
    /\ conn_state' = vc4_state
    /\ saved' = [mode |-> adjusted_mode,
                 output_bpc |-> vc4_state.output_bpc,
                 output_format |-> vc4_state.output_format]
    /\ pc' = "idle"
    /\ ncommits' = ncommits + 1
    /\ mode_changed' = FALSE
    /\ UNCHANGED <<variant, disable_4kp60, disable_wifi_frequencies,
                   display_info, vc4_state, adjusted_mode, ret, hw_writes>>
    /\ UNCHANGED <<hdmivars, devvars>>

\* The checked state is dropped (a failed or test-only check): the atomic
\* state is released and what remains is the connector's current state and
\* the mode last set.
AtomicDiscard ==
    /\ pc = "checked"
    /\ pc' = "idle"
    /\ vc4_state' = conn_state
    /\ adjusted_mode' = saved.mode
    /\ mode_changed' = FALSE
    /\ ret' = 0
    /\ UNCHANGED <<variant, disable_4kp60, disable_wifi_frequencies,
                   display_info, conn_state, saved, hw_writes, ncommits>>
    /\ UNCHANGED <<hdmivars, devvars>>

ConnectorReset ==
    /\ pc = "idle"
    /\ conn_state' = ResetState
    /\ vc4_state' = ResetState
    /\ UNCHANGED <<variant, disable_4kp60, disable_wifi_frequencies,
                   display_info, adjusted_mode, mode_changed,
                   ret, pc, saved, hw_writes, ncommits>>
    /\ UNCHANGED <<hdmivars, devvars>>

Next ==
    \/ \E mode \in Modes, max_bpc \in RequestedBpcs :
           AtomicCheck(mode, max_bpc)
    \/ AtomicModeSet
    \/ AtomicDiscard
    \/ ConnectorReset

Spec == Init /\ [][Next]_vars

\* ------------------------------------------------------------- SpecPower

\* The state after the first commit: a mode of PowerModes negotiated for the
\* sink and handed over by atomic_mode_set, nothing enabled yet.  The hooks
\* read the negotiated rate only; PowerModes spans its tiers at 8 bpc.
InitPower ==
    /\ variant \in Variants
    /\ disable_4kp60 \in
           IF variant.max_pixel_clock = 600000000 THEN BOOLEAN ELSE {FALSE}
    /\ disable_wifi_frequencies = FALSE
    /\ display_info \in PowerSinks
    /\ \E mode \in PowerModes, max_bpc \in {8} :
           LET new == vc4_hdmi_connector_duplicate_state(ResetState, max_bpc)
               r == vc4_hdmi_encoder_atomic_check(ResetState, new, mode,
                                                  FALSE)
           IN  /\ r.ret = 0
               /\ conn_state = r.st
               /\ vc4_state = r.st
               /\ adjusted_mode = r.mode
               /\ saved = [mode |-> r.mode,
                           output_bpc |-> r.st.output_bpc,
                           output_format |-> r.st.output_format]
    /\ mode_changed = FALSE
    /\ ret = 0
    /\ pc = "idle"
    /\ hw_writes = 0
    /\ ncommits = 1
    /\ InitHdmi
    /\ InitDev

\* The context a handler starts from; a transition starts a new trace.
Ctx(tr) == [power |-> power, trace |-> tr, writes |-> 0]

\* The CRTC calls pre_crtc_configure, the first hook of an enable.
PreCrtcConfigure(fail) ==
    /\ epc = "off"
    /\ calls.enables < MaxEnables
    /\ LET r == vc4_hdmi_encoder_pre_crtc_configure(
                    Ctx(<<>>), conn_state.tmds_char_rate, fail)
       IN  /\ power' = r.c.power
           /\ trace' = r.c.trace
           /\ hw_writes' = hw_writes + r.c.writes
           /\ cfg_ret' = r.ret
           /\ dev' = IF r.ret = 0
                     THEN variant_set_timings(dev, conn_state, saved.mode)
                     ELSE dev
    /\ epc' = "configured"
    /\ calls' = [calls EXCEPT !.enables = @ + 1]
    /\ UNCHANGED <<negvars, pram, thr, hdmi>>

\* The hooks return void and leave no mark of a failure: the CRTC goes on to
\* the next hook whatever the last one met.
PreCrtcEnable ==
    /\ epc = "configured"
    /\ LET c == vc4_hdmi_encoder_pre_crtc_enable(Ctx(trace))
       IN  /\ trace' = c.trace
           /\ hw_writes' = hw_writes + c.writes
    /\ dev' = variant_csc_setup(dev, conn_state, saved.mode)
    /\ epc' = "pre_enabled"
    /\ UNCHANGED <<negvars, pram, thr, power, cfg_ret, hdmi, calls>>

\* The hardware answers the polls of the infoframe writes of one enable
\* alike; SpecPacket draws them write by write.
PostCrtcEnable ==
    /\ epc = "pre_enabled"
    /\ LET c == vc4_hdmi_encoder_post_crtc_enable(Ctx(trace))
           s == vc4_hdmi_enable_scrambling(hdmi)
       IN  /\ trace' = c.trace
           /\ hdmi' = s.hdmi
           /\ hw_writes' = hw_writes + c.writes + s.writes
    /\ IF display_info.is_hdmi
       THEN LET d == [dev EXCEPT !.packet_ram_enabled = TRUE]
                p == [pram EXCEPT !.enable = TRUE, !.config = {}]
            IN  /\ dev' = d
                /\ \E poll \in Polls :
                       pram' = vc4_hdmi_set_infoframes(
                                   p, d, conn_state, saved.mode,
                                   <<poll, poll, poll>>)
       ELSE /\ dev' = dev
            /\ pram' = [pram EXCEPT !.enable = FALSE]
    /\ epc' = "enabled"
    /\ UNCHANGED <<negvars, thr, power, cfg_ret, calls>>

\* status is read only if the cancellation has to wait for a running work.
PostCrtcDisable(status) ==
    /\ epc = "enabled"
    /\ LET c == vc4_hdmi_encoder_post_crtc_disable(Ctx(<<>>))
           s == vc4_hdmi_disable_scrambling(hdmi, status)
       IN  /\ trace' = c.trace
           /\ hdmi' = s.hdmi
           /\ hw_writes' = hw_writes + c.writes + s.writes
    /\ dev' = [dev EXCEPT !.packet_ram_enabled = FALSE]
    /\ pram' = [pram EXCEPT !.enable = FALSE, !.config = {}]
    /\ epc' = "disabled"
    /\ UNCHANGED <<negvars, thr, power, cfg_ret, calls>>

PostCrtcPowerdown ==
    /\ epc = "disabled"
    /\ LET c == vc4_hdmi_encoder_post_crtc_powerdown(Ctx(trace))
       IN  /\ power' = c.power
           /\ trace' = c.trace
           /\ hw_writes' = hw_writes + c.writes
    /\ epc' = "off"
    /\ UNCHANGED <<negvars, devvars, cfg_ret, hdmi, calls>>

\* The detect hook, serialised with the encoder hooks by vc4_hdmi->mutex:
\* it takes a power reference, reads the hotplug state, enables scrambling
\* if the sink is connected and puts a power reference back.
ConnectorDetect(connected, resumed) ==
    /\ calls.detects < MaxDetects
    /\ LET r == vc4_hdmi_connector_detect(power, hdmi, connected, resumed)
       IN  /\ power' = r.power
           /\ hdmi' = r.hdmi
           /\ hw_writes' = hw_writes + r.writes
    /\ calls' = [calls EXCEPT !.detects = @ + 1]
    /\ UNCHANGED <<negvars, devvars, trace, epc, cfg_ret>>

\* The delay has run out and a worker of system_wq takes the work up: it is
\* no longer pending.  The work function holds no lock, so any hook may run
\* between this step and the next.
ScramblingWorkFire ==
    /\ hdmi.scrambling_work.pending > 0
    /\ ~hdmi.scrambling_work.running
    /\ calls.checks < MaxChecks
    /\ hdmi' = [hdmi EXCEPT
                    !.scrambling_work = [pending |-> @.pending - 1,
                                         delay |-> 0, running |-> TRUE]]
    /\ calls' = [calls EXCEPT !.checks = @ + 1]
    /\ UNCHANGED <<negvars, devvars, hw_writes, power, trace, epc, cfg_ret>>

\* The work function runs and returns.
ScramblingWorkRun(status) ==
    /\ hdmi.scrambling_work.running
    /\ hdmi' = [vc4_hdmi_scrambling_wq(hdmi, status) EXCEPT
                    !.scrambling_work.running = FALSE]
    /\ UNCHANGED <<negvars, devvars, hw_writes, power, trace, epc, cfg_ret, calls>>

NextPower ==
    \/ \E fail \in FailPoints : PreCrtcConfigure(fail)
    \/ PreCrtcEnable
    \/ PostCrtcEnable
    \/ \E status \in BOOLEAN : PostCrtcDisable(status)
    \/ PostCrtcPowerdown
    \/ \E connected \in BOOLEAN, resumed \in BOOLEAN :
           ConnectorDetect(connected, resumed)
    \/ ScramblingWorkFire
    \/ \E status \in BOOLEAN : ScramblingWorkRun(status)

SpecPower == InitPower /\ [][NextPower]_vars

\* -------------------------------------------------------------- SpecRegs

\* The sinks of SpecRegs: an HDMI sink with deep color, an HDMI sink that
\* takes YCbCr 4:2:2 but no deep-color RGB, and a DVI sink.
RegSinks ==
    {DisplayInfo(TRUE, {DRM_COLOR_FORMAT_RGB444},
                 {DRM_EDID_HDMI_DC_30, DRM_EDID_HDMI_DC_36}, 600000),
     DisplayInfo(TRUE, {DRM_COLOR_FORMAT_RGB444, DRM_COLOR_FORMAT_YCBCR422},
                 {}, 600000),
     DisplayInfo(FALSE, {DRM_COLOR_FORMAT_RGB444}, {}, 0)}

\* VIC 1, a double-clocked CEA mode and VIC 16.
RegModes == {Mode640x480, Mode480i, Mode1080p60}

\* The max bpc requested of a sink: 10 as well where the sink takes 30-bit
\* deep color, the only sinks for which it is negotiated.
RegBpcs(info) ==
    IF DRM_EDID_HDMI_DC_30 \in info.edid_hdmi_rgb444_dc_modes
    THEN {8, 10, 12}
    ELSE {8, 12}

\* One variant of each generation.
RegVariants == {bcm2835_variant, bcm2711_hdmi0_variant}

\* params->sample_rate and params->channels of the prepare callback.
SampleRates == {44100, 48000}
ChannelCounts == {2, 8}

\* The state after the first commit, as in SpecPower, over the sinks and
\* modes that exercise the timing, colorspace and audio programming.
InitRegs ==
    /\ variant \in RegVariants
    /\ disable_4kp60 = FALSE
    /\ disable_wifi_frequencies = FALSE
    /\ display_info \in RegSinks
    /\ \E mode \in RegModes, max_bpc \in RegBpcs(display_info) :
           LET new == vc4_hdmi_connector_duplicate_state(ResetState, max_bpc)
               r == vc4_hdmi_encoder_atomic_check(ResetState, new, mode,
                                                  FALSE)
           IN  /\ r.ret = 0
               /\ conn_state = r.st
               /\ vc4_state = r.st
               /\ adjusted_mode = r.mode
               /\ saved = [mode |-> r.mode,
                           output_bpc |-> r.st.output_bpc,
                           output_format |-> r.st.output_format]
    /\ mode_changed = FALSE
    /\ ret = 0
    /\ pc = "idle"
    /\ hw_writes = 0
    /\ ncommits = 1
    /\ InitHdmi
    /\ InitDev

\* The startup callback of the audio codec.
AudioStartup ==
    /\ calls.audio < MaxAudioCalls
    /\ dev' = vc4_hdmi_audio_startup(dev)
    /\ calls' = [calls EXCEPT !.audio = @ + 1]
    /\ UNCHANGED <<negvars, hw_writes, power, trace, epc, cfg_ret, hdmi,
                   pram, thr>>

\* The prepare callback: the MAI and clock-recovery registers, then the
\* audio infoframe.
AudioPrepare(sample_rate, channels, poll) ==
    /\ calls.audio < MaxAudioCalls
    /\ LET d == vc4_hdmi_audio_prepare(dev, sample_rate, channels,
                                       saved.mode)
       IN  /\ dev' = d
           /\ pram' = IF d.audio.ret = 0
                      THEN vc4_hdmi_set_audio_infoframe(pram, d, poll)
                      ELSE pram
    /\ calls' = [calls EXCEPT !.audio = @ + 1]
    /\ UNCHANGED <<negvars, hw_writes, power, trace, epc, cfg_ret, hdmi,
                   thr>>

\* The shutdown callback, with the stop of the audio packet that
\* vc4_hdmi_audio_reset makes without a poll.
AudioShutdown ==
    /\ calls.audio < MaxAudioCalls
    /\ dev' = vc4_hdmi_audio_shutdown(dev)
    /\ pram' = vc4_hdmi_stop_packet(pram, hdmi_audio_infoframe.type,
                                    FALSE, FALSE).p
    /\ calls' = [calls EXCEPT !.audio = @ + 1]
    /\ UNCHANGED <<negvars, hw_writes, power, trace, epc, cfg_ret, hdmi,
                   thr>>

NextRegs ==
    \/ PreCrtcConfigure("none")
    \/ PreCrtcEnable
    \/ PostCrtcEnable
    \/ \E status \in BOOLEAN : PostCrtcDisable(status)
    \/ PostCrtcPowerdown
    \/ AudioStartup
    \/ \E sample_rate \in SampleRates, channels \in ChannelCounts,
          poll \in Polls : AudioPrepare(sample_rate, channels, poll)
    \/ AudioShutdown

SpecRegs == InitRegs /\ [][NextRegs]_vars

\* ------------------------------------------------------------- SpecLocks

\* The driver bound to an HDMI sink, every context outside it.
InitLocks ==
    /\ variant = bcm2711_hdmi0_variant
    /\ disable_4kp60 = FALSE
    /\ disable_wifi_frequencies = FALSE
    /\ display_info = DisplayInfo(TRUE, {DRM_COLOR_FORMAT_RGB444}, {}, 0)
    /\ conn_state = ResetState
    /\ vc4_state = ResetState
    /\ adjusted_mode = Mode640x480
    /\ mode_changed = FALSE
    /\ ret = 0
    /\ pc = "idle"
    /\ saved = [mode |-> Mode640x480, output_bpc |-> 0,
                output_format |-> VC4_HDMI_OUTPUT_RGB]
    /\ hw_writes = 0
    /\ ncommits = 0
    /\ InitHdmi
    /\ InitDev

\* Context t enters the driver through handler.
Call(t, handler) ==
    /\ thr.at[t] = Returned
    /\ thr' = [thr EXCEPT !.at[t] = [handler |-> handler, i |-> 0]]
    /\ UNCHANGED <<negvars, hw_writes, hdmivars, pram, dev>>

\* Context t makes the next lock or packet operation of its handler.
LockStep(t) ==
    /\ CanStep(t)
    /\ thr' = LockOp(t, NextOp(t))
    /\ UNCHANGED <<negvars, hw_writes, hdmivars, pram, dev>>

NextLocks ==
    \/ \E t \in Threads : \E handler \in Handlers(t) : Call(t, handler)
    \/ \E t \in Threads : LockStep(t)

SpecLocks == InitLocks /\ [][NextLocks]_vars

\* ------------------------------------------------------------ SpecPacket

\* The infoframe writer on its own: the bound device with its packet RAM
\* holding whatever the reset left in it.
InitPacket ==
    /\ variant = bcm2711_hdmi0_variant
    /\ disable_4kp60 = FALSE
    /\ disable_wifi_frequencies = FALSE
    /\ display_info = DisplayInfo(TRUE, {DRM_COLOR_FORMAT_RGB444}, {}, 0)
    /\ conn_state = ResetState
    /\ vc4_state = ResetState
    /\ adjusted_mode = Mode640x480
    /\ mode_changed = FALSE
    /\ ret = 0
    /\ pc = "idle"
    /\ saved = [mode |-> Mode640x480, output_bpc |-> 0,
                output_format |-> VC4_HDMI_OUTPUT_RGB]
    /\ hw_writes = 0
    /\ ncommits = 0
    /\ InitHdmi
    /\ pram \in {[PramAfterReset(fill) EXCEPT !.enable = TRUE] :
                    fill \in {ZeroWord, <<255, 255, 255, 255>>}}
    /\ dev = DevAfterBind
    /\ thr = ThreadsIdle

\* A call of vc4_hdmi_write_infoframe.
WriteInfoframe(frame, idle, active) ==
    /\ pram' = vc4_hdmi_write_infoframe(pram, frame, idle, active)
    /\ UNCHANGED <<negvars, hw_writes, hdmivars, dev, thr>>

\* A call of vc4_hdmi_stop_packet without poll, as the audio reset makes it.
StopPacket(type) ==
    /\ pram' = vc4_hdmi_stop_packet(pram, type, FALSE, FALSE).p
    /\ UNCHANGED <<negvars, hw_writes, hdmivars, dev, thr>>

\* The hardware starts sending an enabled packet and sets its status bit.
PacketActivate(packet_id) ==
    /\ packet_id \in pram.config \ pram.status
    /\ pram' = [pram EXCEPT !.status = @ \cup {packet_id}]
    /\ UNCHANGED <<negvars, hw_writes, hdmivars, dev, thr>>

\* The hardware stops sending a disabled packet and clears its status bit.
PacketQuiesce(packet_id) ==
    /\ packet_id \in pram.status \ pram.config
    /\ pram' = [pram EXCEPT !.status = @ \ {packet_id}]
    /\ UNCHANGED <<negvars, hw_writes, hdmivars, dev, thr>>

NextPacket ==
    \/ \E frame \in Frames, idle \in BOOLEAN, active \in BOOLEAN :
           WriteInfoframe(frame, idle, active)
    \/ StopPacket(hdmi_audio_infoframe.type)
    \/ \E packet_id \in PacketIds : PacketActivate(packet_id)
    \/ \E packet_id \in PacketIds : PacketQuiesce(packet_id)

SpecPacket == InitPacket /\ [][NextPacket]_vars

\* ---------------------------------------------------------------- claims

\* The last atomic check returned 0: negotiation succeeded and vc4_state
\* holds what it stored.
Negotiated == pc = "checked" /\ ret = 0

\* The last atomic check was turned down for odd horizontal timings, before
\* negotiation ran.
OddRejected ==
    /\ pc = "checked"
    /\ variant.unsupported_odd_h_timings
    /\ HasOddTimings(adjusted_mode)

\* The last atomic check ran the negotiation and it found no configuration.
NegotiationFailed == pc = "checked" /\ ret # 0 /\ ~OddRejected

\* clamp(requestedMaxBpc, 8, 12), written out.
ClampedMaxBpc ==
    IF vc4_state.max_bpc < 8 THEN 8
    ELSE IF vc4_state.max_bpc > 12 THEN 12
    ELSE vc4_state.max_bpc

\* The bit depths of the search: the clamped maximum, descending in steps
\* of 2, not below 8.
SearchBpcs == {b \in 8 .. 12 : b <= ClampedMaxBpc /\ (ClampedMaxBpc - b) % 2 = 0}

SearchFormats == {VC4_HDMI_OUTPUT_RGB, VC4_HDMI_OUTPUT_YUV422}

\* The pair (bpc, fmt) passes the sink-support check and the clock ceilings
\* for the mode negotiation was given.
Passes(bpc, fmt) ==
    /\ vc4_hdmi_sink_supports_format_bpc(display_info, adjusted_mode, fmt, bpc)
    /\ vc4_hdmi_encoder_clock_valid(
           vc4_hdmi_encoder_compute_mode_clock(adjusted_mode, bpc, fmt))

\* (b1, f1) is tried before (b2, f2).
Earlier(b1, f1, b2, f2) ==
    \/ b1 > b2
    \/ b1 = b2 /\ f1 = VC4_HDMI_OUTPUT_RGB /\ f2 = VC4_HDMI_OUTPUT_YUV422

\* C1: whenever negotiation succeeds, the stored tmds_char_rate is at most
\* the variant's max_pixel_clock, at most 340,000,000 Hz if disable_4kp60 is
\* set, and at most the sink's max_tmds_clock * 1000 if that is nonzero.
C1_ClockWithinCeilings ==
    Negotiated =>
        /\ vc4_state.tmds_char_rate <= variant.max_pixel_clock
        /\ disable_4kp60 => vc4_state.tmds_char_rate <= 340000000
        /\ display_info.max_tmds_clock # 0 =>
               vc4_state.tmds_char_rate <= display_info.max_tmds_clock * 1000

\* A success in which a ceiling turned the 12 bpc candidate down.
C1_Witness ==
    /\ Negotiated
    /\ disable_4kp60
    /\ display_info.max_tmds_clock # 0
    /\ display_info.is_hdmi
    /\ DRM_COLOR_FORMAT_RGB444 \in display_info.color_formats
    /\ DRM_EDID_HDMI_DC_36 \in display_info.edid_hdmi_rgb444_dc_modes
    /\ drm_match_cea_mode(adjusted_mode) # 1
    /\ vc4_state.max_bpc = 12
    /\ vc4_state.output_bpc < 12

\* C2: for every requested max bpc, a successful negotiation stores an
\* output_bpc that is one of 8, 10 or 12.
C2_BpcIs8_10_12 == Negotiated => vc4_state.output_bpc \in {8, 10, 12}

\* C3: negotiation returns exactly the first (bpc, format) pair that passes
\* the sink-support check and all clock ceilings, bpc descending from the
\* clamped maximum in steps of 2 and RGB before YUV422 within a bpc.
C3_FirstPassingPairWins ==
    Negotiated =>
        /\ vc4_state.output_bpc \in SearchBpcs
        /\ vc4_state.output_format \in SearchFormats
        /\ Passes(vc4_state.output_bpc, vc4_state.output_format)
        /\ \A b \in SearchBpcs, f \in SearchFormats :
               Earlier(b, f, vc4_state.output_bpc, vc4_state.output_format)
                   => ~Passes(b, f)

\* A success with YUV422 at 12 bpc on a sink that also has RGB at 12 bpc:
\* the RGB candidate was tried first and a ceiling turned it down.
C3_Witness ==
    /\ Negotiated
    /\ vc4_state.max_bpc = 12
    /\ vc4_state.output_format = VC4_HDMI_OUTPUT_YUV422
    /\ display_info.is_hdmi
    /\ DRM_COLOR_FORMAT_RGB444 \in display_info.color_formats
    /\ DRM_EDID_HDMI_DC_36 \in display_info.edid_hdmi_rgb444_dc_modes

\* C4: negotiation fails if and only if no (bpc, format) pair with bpc in
\* {8, 10, 12} not above the clamped maximum and format in {RGB, YUV422}
\* passes the sink-support check and the clock ceilings.
C4_FailsIffNoCandidate ==
    (pc = "checked" /\ ~OddRejected) =>
        (ret # 0 <=>
            \A b \in {8, 10, 12}, f \in SearchFormats :
                b <= ClampedMaxBpc => ~Passes(b, f))

\* C5: when the atomic check fails because negotiation found no valid
\* configuration, the connector state's output_bpc, output_format and
\* tmds_char_rate are those from before the call and no register is written.
C5_FailedCheckLeavesState ==
    [][(pc = "idle" /\ NegotiationFailed') =>
           /\ vc4_state'.output_bpc = conn_state.output_bpc
           /\ vc4_state'.output_format = conn_state.output_format
           /\ vc4_state'.tmds_char_rate = conn_state.tmds_char_rate
           /\ hw_writes' = hw_writes]_vars

\* A failed negotiation over a state that an earlier commit had filled in.
C5_Witness ==
    /\ NegotiationFailed
    /\ conn_state.output_bpc = 12
    /\ conn_state.tmds_char_rate > 0
    /\ DRM_COLOR_FORMAT_RGB444 \in display_info.color_formats

\* C6: a successful negotiation never stores YUV422 together with an
\* output_bpc other than 12.
C6_Yuv422Only12Bpc ==
    (Negotiated /\ vc4_state.output_format = VC4_HDMI_OUTPUT_YUV422) =>
        vc4_state.output_bpc = 12

\* A success with YUV422 output.
C6_Witness ==
    /\ Negotiated
    /\ vc4_state.output_format = VC4_HDMI_OUTPUT_YUV422

\* C7: for a sink whose is_hdmi flag is false, every negotiation either
\* fails or yields RGB at 8 bpc.
C7_DviSinkRgb8 ==
    (pc = "checked" /\ ~display_info.is_hdmi /\ ret = 0) =>
        /\ vc4_state.output_format = VC4_HDMI_OUTPUT_RGB
        /\ vc4_state.output_bpc = 8

\* A success on a DVI sink that advertises deep color and YCbCr, with
\* 12 bpc requested.
C7_Witness ==
    /\ Negotiated
    /\ ~display_info.is_hdmi
    /\ DRM_EDID_HDMI_DC_36 \in display_info.edid_hdmi_rgb444_dc_modes
    /\ DRM_COLOR_FORMAT_YCBCR422 \in display_info.color_formats
    /\ vc4_state.max_bpc = 12

\* C8: for a mode that matches CEA VIC 1, every successful negotiation
\* yields output_bpc 8.
C8_Vic1Is8Bpc ==
    (Negotiated /\ drm_match_cea_mode(adjusted_mode) = 1) =>
        vc4_state.output_bpc = 8

\* A success for VIC 1 on an HDMI sink with both deep-color bits, with
\* 12 bpc requested.
C8_Witness ==
    /\ Negotiated
    /\ drm_match_cea_mode(adjusted_mode) = 1
    /\ display_info.is_hdmi
    /\ display_info.edid_hdmi_rgb444_dc_modes =
           {DRM_EDID_HDMI_DC_30, DRM_EDID_HDMI_DC_36}
    /\ vc4_state.max_bpc = 12

\* C9: the stored rate equals floor(clock_kHz * 1000 * (2 if DBLCLK else 1)
\* * effectiveBpc / 8), effectiveBpc being 8 for YUV422 and the chosen bpc
\* otherwise.  1000 / 8 = 125, so the quotient is exact.
C9_StoredRateFormula ==
    Negotiated =>
        vc4_state.tmds_char_rate =
            adjusted_mode.clock * 125
                * (IF adjusted_mode.dblclk THEN 2 ELSE 1)
                * (IF vc4_state.output_format = VC4_HDMI_OUTPUT_YUV422
                   THEN 8 ELSE vc4_state.output_bpc)

\* A success for a double-clocked mode with YUV422 output.
C9_Witness ==
    /\ Negotiated
    /\ adjusted_mode.dblclk
    /\ vc4_state.output_format = VC4_HDMI_OUTPUT_YUV422
    /\ vc4_state.output_bpc = 12

\* The inputs of the 1080p60 scenario.
C10_Inputs ==
    /\ pc = "checked"
    /\ adjusted_mode.clock = 148500
    /\ ~adjusted_mode.dblclk
    /\ vc4_state.max_bpc = 12
    /\ display_info.is_hdmi
    /\ {DRM_COLOR_FORMAT_RGB444, DRM_COLOR_FORMAT_YCBCR422}
           \subseteq display_info.color_formats
    /\ DRM_EDID_HDMI_DC_36 \in display_info.edid_hdmi_rgb444_dc_modes
    /\ display_info.max_tmds_clock = 600000
    /\ variant.max_pixel_clock = 600000000
    /\ ~disable_4kp60
    /\ ~disable_wifi_frequencies

\* C10: for mode clock 148,500 kHz without double-clock, requested max bpc
\* 12, an HDMI sink with RGB444, the 36-bit deep-color bit and YCbCr422,
\* sink and variant maximum 600 MHz and no policy flags, negotiation yields
\* 12 bpc, RGB and 222,750,000 Hz.
C10_Scenario1080p60 ==
    C10_Inputs =>
        /\ ret = 0
        /\ vc4_state.output_bpc = 12
        /\ vc4_state.output_format = VC4_HDMI_OUTPUT_RGB
        /\ vc4_state.tmds_char_rate = 222750000

\* The scenario has been run.
C10_Witness == C10_Inputs /\ ret = 0 /\ vc4_state.tmds_char_rate > 0

\* The mode clock after double-clock doubling, in kHz: ten times it, in Hz,
\* lies in 2,400,000,000 .. 2,422,000,000 exactly when it lies in the band
\* written in units of 10 kHz.
DoubledClockInWifiBand(mode) ==
    LET doubled == mode.clock * (IF mode.dblclk THEN 2 ELSE 1) IN
    /\ doubled >= WIFI_2_4GHz_CH1_MIN_FREQ
    /\ doubled <= WIFI_2_4GHz_CH1_MAX_FREQ

\* C11: with disable_wifi_frequencies set, every mode whose clock after
\* double-clock doubling, times 10, lies in 2,400,000,000 .. 2,422,000,000 Hz
\* enters negotiation with its clock overridden to 238,560 kHz and the stored
\* rate is computed from that value; with the flag clear the atomic check
\* never changes the mode clock.
C11_WifiOverride ==
    [][\A mode \in Modes, max_bpc \in RequestedBpcs :
           (AtomicCheck(mode, max_bpc) /\ ~OddRejected') =>
               IF disable_wifi_frequencies
               THEN DoubledClockInWifiBand(mode) =>
                        /\ adjusted_mode'.clock = 238560
                        /\ ret' = 0 =>
                               vc4_state'.tmds_char_rate =
                                   238560 * 125
                                       * (IF mode.dblclk THEN 2 ELSE 1)
                                       * (IF vc4_state'.output_format =
                                              VC4_HDMI_OUTPUT_YUV422
                                          THEN 8 ELSE vc4_state'.output_bpc)
               ELSE adjusted_mode'.clock = mode.clock]_vars

\* Connector states an earlier commit may have left behind.
PriorContents ==
    {ResetState,
     [max_bpc |-> 12, output_bpc |-> 12,
      output_format |-> VC4_HDMI_OUTPUT_YUV422, tmds_char_rate |-> 148500000]}

\* What a run of the atomic check reports: failure, or success with the
\* output_bpc, output_format and tmds_char_rate it stored.
Outcome(r, st) ==
    IF r # 0 THEN <<"failed">>
    ELSE <<"ok", st.output_bpc, st.output_format, st.tmds_char_rate>>

\* C12: the outcome of an atomic check (failure, or output_bpc, output_format
\* and tmds_char_rate) is the outcome of a second run on the same mode, sink,
\* max bpc, variant and flags made over any other prior connector state.
\* The step is an atomic check of mode with max_bpc: the check leaves
\* hdisplay, htotal and the DBLCLK flag of the mode alone, and the modes
\* differ in them.
C12_Deterministic ==
    [][\A mode \in Modes, max_bpc \in RequestedBpcs :
           (/\ pc = "idle"
            /\ pc' = "checked"
            /\ vc4_state'.max_bpc = max_bpc
            /\ adjusted_mode'.hdisplay = mode.hdisplay
            /\ adjusted_mode'.htotal = mode.htotal
            /\ adjusted_mode'.dblclk = mode.dblclk) =>
               \A prior \in PriorContents :
                   LET again == vc4_hdmi_encoder_atomic_check(
                                    prior,
                                    vc4_hdmi_connector_duplicate_state(
                                        prior, max_bpc),
                                    mode, FALSE)
                   IN  Outcome(ret', vc4_state') = Outcome(again.ret, again.st)]_vars

\* A successful check over a state an earlier commit had filled with another
\* configuration.
C12_Witness ==
    /\ Negotiated
    /\ conn_state.output_bpc = 12
    /\ conn_state.output_format = VC4_HDMI_OUTPUT_YUV422
    /\ vc4_state.output_bpc = 8
    /\ vc4_state.output_format = VC4_HDMI_OUTPUT_RGB

\* The step ev is in the trace.
Has(tr, ev) == \E i \in 1 .. Len(tr) : tr[i] = ev

\* Some step a is in the trace before some step b.
Before(tr, a, b) ==
    \E i \in 1 .. Len(tr), j \in 1 .. Len(tr) : i < j /\ tr[i] = a /\ tr[j] = b

\* The steps of the trace that are in evs, in their order.
Only(tr, evs) == LET In(ev) == ev \in evs IN SelectSeq(tr, In)

\* The last pre_crtc_configure of this enable logged a failure.
ConfigureFailed ==
    epc \in {"configured", "pre_enabled", "enabled"} /\ cfg_ret # 0

\* C13: when a step of pre_crtc_configure fails, on return the pixel clocks
\* and the power reference are as before the call, a pixel clock that was
\* enabled is disabled before the power reference is put back, and a power
\* reference that was taken is put back: the pixel clock is not left enabled
\* without the power reference, nor the reference held after a clock step
\* failed.
C13_FailureUnwinds ==
    [][(epc = "off" /\ epc' = "configured" /\ cfg_ret' # 0) =>
           /\ power'.pixel_clock = power.pixel_clock
           /\ power'.pixel_bvb_clock = power.pixel_bvb_clock
           /\ power'.pm_usage = power.pm_usage
           /\ ~(power'.pixel_clock > 0 /\ power'.pm_usage = 0)
           /\ Has(trace', "pm_runtime_resume_and_get") =>
                  Before(trace', "pm_runtime_resume_and_get",
                         "pm_runtime_put")
           /\ Has(trace', "clk_prepare_enable(pixel_clock)") =>
                  /\ Before(trace', "clk_prepare_enable(pixel_clock)",
                            "clk_disable_unprepare(pixel_clock)")
                  /\ Before(trace', "clk_disable_unprepare(pixel_clock)",
                            "pm_runtime_put")
                  /\ trace'[Len(trace')] = "pm_runtime_put"]_vars

\* pre_crtc_configure failed after it had enabled the pixel clock.
C13_Witness ==
    /\ epc = "configured"
    /\ cfg_ret # 0
    /\ Has(trace, "clk_prepare_enable(pixel_clock)")
    /\ Has(trace, "Failed to turn on pixel bvb clock")

\* The later stages of an enable: timing programming, colorspace setup,
\* video enable, infoframe writes, scrambling enable.
LaterStages ==
    {"set_timings", "csc_setup", "HDMI_VID_CTL = ENABLE",
     "vc4_hdmi_set_infoframes", "vc4_hdmi_enable_scrambling"}

\* C14: after pre_crtc_configure failed at a clock or power step, none of the
\* later stages of that enable (timing programming, colorspace setup, video
\* enable, infoframe writes, scrambling enable) is performed.
C14_FailureStopsEnable ==
    ConfigureFailed => \A i \in 1 .. Len(trace) : trace[i] \notin LaterStages

\* The steps the order of a successful pre_crtc_configure is stated over.
ConfigureSteps ==
    {"clk_set_min_rate(hsm_clock)", "pm_runtime_resume_and_get",
     "clk_set_rate(pixel_clock)", "clk_prepare_enable(pixel_clock)",
     "clk_set_min_rate(pixel_bvb_clock)",
     "clk_prepare_enable(pixel_bvb_clock)", "phy_init", "set_timings",
     "HDMI_SCHEDULER_CONTROL |= MANUAL_FORMAT"}

\* C15: a successful pre_crtc_configure sets the minimum HSM clock rate,
\* takes the power reference, sets and enables the pixel clock, sets and
\* enables the bvb clock, initialises the PHY, programs the timings and only
\* then sets the scheduler to manual format, in this order.
C15_EnableOrder ==
    (epc = "configured" /\ cfg_ret = 0) =>
        Only(trace, ConfigureSteps) =
            <<"clk_set_min_rate(hsm_clock)", "pm_runtime_resume_and_get",
              "clk_set_rate(pixel_clock)", "clk_prepare_enable(pixel_clock)",
              "clk_set_min_rate(pixel_bvb_clock)",
              "clk_prepare_enable(pixel_bvb_clock)", "phy_init",
              "set_timings", "HDMI_SCHEDULER_CONTROL |= MANUAL_FORMAT">>

\* The steps the order of the disable path is stated over.
DisableSteps ==
    {"HDMI_VID_CTL |= CLRRGB", "mdelay(1)", "HDMI_VID_CTL &= ~ENABLE",
     "vc4_hdmi_disable_scrambling", "phy_disable",
     "clk_disable_unprepare(pixel_bvb_clock)",
     "clk_disable_unprepare(pixel_clock)", "pm_runtime_put"}

\* C16: post_crtc_disable blanks the video output, waits one delay, clears
\* the video enable bit and disables scrambling; post_crtc_powerdown then
\* disables the PHY, the bvb clock and the pixel clock and puts the power
\* reference back, which is the last step of all.
C16_DisableOrder ==
    /\ epc = "disabled" =>
           Only(trace, DisableSteps) =
               <<"HDMI_VID_CTL |= CLRRGB", "mdelay(1)",
                 "HDMI_VID_CTL &= ~ENABLE", "vc4_hdmi_disable_scrambling">>
    /\ (epc = "off" /\ trace # <<>>) =>
           /\ Only(trace, DisableSteps) =
                  <<"HDMI_VID_CTL |= CLRRGB", "mdelay(1)",
                    "HDMI_VID_CTL &= ~ENABLE", "vc4_hdmi_disable_scrambling",
                    "phy_disable", "clk_disable_unprepare(pixel_bvb_clock)",
                    "clk_disable_unprepare(pixel_clock)", "pm_runtime_put">>
           /\ trace[Len(trace)] = "pm_runtime_put"

\* A display that was enabled with scrambling has been disabled and powered
\* down.
C16_Witness ==
    /\ epc = "off"
    /\ Has(trace, "phy_disable")
    /\ cfg_ret = 0
    /\ hdmi.scdc_writes >= 4
    /\ power.pm_usage = 0

\* C17: a scrambling work that is pending or running implies scdc_enabled:
\* once vc4_hdmi_disable_scrambling has returned no check is pending or
\* running, and none is queued before the next enable.
C17_NoCheckWhenDisabled ==
    (hdmi.scrambling_work.pending > 0 \/ hdmi.scrambling_work.running)
        => hdmi.scdc_enabled

\* The TMDS rate of the committed configuration, in Hz.
CommittedRate ==
    saved.mode.clock * 125
        * (IF saved.mode.dblclk THEN 2 ELSE 1)
        * (IF saved.output_format = VC4_HDMI_OUTPUT_YUV422
           THEN 8 ELSE saved.output_bpc)

\* The sink advertises SCDC and scrambling, and the committed rate is above
\* 340,000,000 Hz.
ScramblingCalledFor ==
    /\ display_info.scdc.supported
    /\ display_info.scdc.scrambling.supported
    /\ CommittedRate > 340000000

\* C18: unless the sink advertises both SCDC and scrambling support and the
\* rate of the committed configuration is strictly above 340,000,000 Hz, a
\* call of vc4_hdmi_enable_scrambling (from post_crtc_enable or from detect)
\* writes nothing over SCDC, does not write the scrambler register, leaves
\* scdc_enabled as it was and queues no work.
C18_EnableIsNoOp ==
    [][~ScramblingCalledFor =>
           /\ PostCrtcEnable => (hdmi' = hdmi /\ hw_writes' = hw_writes + 8)
           /\ (\E resumed \in BOOLEAN : ConnectorDetect(TRUE, resumed)) =>
                  (hdmi' = hdmi /\ hw_writes' = hw_writes)]_vars

\* The display is enabled at exactly 340,000,000 Hz on a sink that can
\* scramble, and nothing was written or queued.
C18_Witness ==
    /\ epc = "enabled"
    /\ cfg_ret = 0
    /\ CommittedRate = 340000000
    /\ display_info.is_hdmi
    /\ display_info.scdc.supported
    /\ display_info.scdc.scrambling.supported
    /\ hdmi.scdc_writes = 0
    /\ hdmi.scrambling_work.pending = 0

\* C19: a call of vc4_hdmi_enable_scrambling above the threshold on an HDMI
\* sink that can scramble leaves scdc_enabled set and exactly one check
\* pending, and however many calls post_crtc_enable and detect make, at most
\* one check is pending.
C19_OneCheckPending ==
    [][/\ hdmi'.scrambling_work.pending <= 1
       /\ (/\ ScramblingCalledFor
           /\ display_info.is_hdmi
           /\ \/ PostCrtcEnable
              \/ \E resumed \in BOOLEAN : ConnectorDetect(TRUE, resumed)) =>
              /\ hdmi'.scdc_enabled
              /\ hdmi'.scrambling_work.pending = 1
              /\ hdmi'.scrambling_work.delay = SCRAMBLING_POLLING_DELAY_MS]_vars

\* Scrambling was enabled three times over (post_crtc_enable and two detect
\* calls) with no check run in between, and one check is pending.
C19_Witness ==
    /\ epc = "enabled"
    /\ calls.detects = 2
    /\ calls.checks = 0
    /\ hdmi.scdc_writes = 6
    /\ hdmi.scdc_enabled
    /\ hdmi.scrambling_work.pending = 1

\* C20: while scdc_enabled is set, every run of the check, whatever the sink
\* reported, leaves another check pending with a delay of 1000 ms.
C20_CheckRecurs ==
    [][(/\ hdmi.scdc_enabled
        /\ hdmi'.scdc_enabled
        /\ hdmi.scrambling_work.running
        /\ ~hdmi'.scrambling_work.running) =>
           /\ hdmi'.scrambling_work.pending = 1
           /\ hdmi'.scrambling_work.delay = SCRAMBLING_POLLING_DELAY_MS]_vars

\* The bytes read back from a packet's slot: three from the first register
\* of each pair, four from the second.
RECURSIVE ReadSlot(_, _, _)
ReadSlot(ram, packet_reg, n) ==
    IF n = 0 THEN <<>>
    ELSE LET word == ram[packet_reg + n - 1]
         IN  ReadSlot(ram, packet_reg, n - 1) \o
                 (IF (n - 1) % 2 = 0
                  THEN <<word[1], word[2], word[3]>>
                  ELSE word)

SlotReadBack(packet_id) ==
    ReadSlot(pram.ram, (VC4_HDMI_PACKET_STRIDE * packet_id) \div 4,
             VC4_HDMI_PACKET_STRIDE \div 4)

\* The header, checksum and payload of the frame, then zeros up to n bytes.
SerializedPadded(frame, n) ==
    LET pk == PackedFrame(frame)
    IN  [i \in 1 .. n |-> IF i <= pk.len THEN pk.buffer[i] ELSE 0]

\* C21: a write whose stop poll timed out has cleared the slot's enable bit
\* and has changed no register of the packet RAM; the bit stays clear.
C21_StopTimeoutLeavesRam ==
    [][\A idle \in BOOLEAN, active \in BOOLEAN :
           LET frame == pram'.last.frame IN
           (/\ frame \in Frames
            /\ pram'.last.stop_ret # 0
            /\ WriteInfoframe(frame, idle, active)) =>
               /\ pram'.ram = pram.ram
               /\ (frame.type - 128) \notin pram'.config]_vars

\* A write of the SPD infoframe timed out on a slot written before.
C21_Witness ==
    /\ pram.last.frame.type = hdmi_spd_infoframe.type
    /\ pram.last.stop_ret = -ETIMEDOUT
    /\ 3 \notin pram.config
    /\ SlotReadBack(3)[1] = hdmi_spd_infoframe.type

\* C22: after a write whose stop poll succeeded, the slot reads back as the
\* serialized frame followed by zeros, and its enable bit is set, whatever
\* the poll for the start returned.
C22_ReadBackIsPayload ==
    [][\A idle \in BOOLEAN, active \in BOOLEAN :
           LET frame == pram'.last.frame IN
           (/\ frame \in Frames
            /\ pram'.last.stop_ret = 0
            /\ WriteInfoframe(frame, idle, active)) =>
               /\ ReadSlot(pram'.ram,
                           (VC4_HDMI_PACKET_STRIDE * (frame.type - 128))
                               \div 4,
                           VC4_HDMI_PACKET_STRIDE \div 4)
                      = SerializedPadded(frame, 31)
               /\ (frame.type - 128) \in pram'.config]_vars

\* The 29 bytes of an SPD infoframe were written over a slot of ones, and
\* the poll for the start timed out.
C22_Witness ==
    /\ pram.last.frame.type = hdmi_spd_infoframe.type
    /\ pram.last.stop_ret = 0
    /\ pram.last.start_ret = -ETIMEDOUT
    /\ 3 \in pram.config
    /\ pram.ram[0] = <<255, 255, 255, 255>>
    /\ SlotReadBack(3) = SerializedPadded(pram.last.frame, 31)

\* --------------------------------------------------------- audio claims

\* The registers and the packet RAM are as they were, audio.streaming is
\* not set, and the callback has returned an error.
AudioCallRefused ==
    /\ dev'.audio.ret < 0
    /\ dev' = [dev EXCEPT !.audio.ret = dev'.audio.ret]
    /\ ~dev'.audio.streaming
    /\ pram' = pram

\* C24: when the sink's is_hdmi flag is false, the audio startup and the
\* audio prepare fail with an error, write no hardware register, do not set
\* audio.streaming and write no audio infoframe.
C24_AudioRefusedOnDvi ==
    [][(/\ ~display_info.is_hdmi
        /\ calls'.audio # calls.audio
        /\ \/ AudioStartup
           \/ \E sample_rate \in SampleRates, channels \in ChannelCounts,
                 poll \in Polls : AudioPrepare(sample_rate, channels, poll))
       => AudioCallRefused]_vars

\* A prepare has failed on a DVI sink with the encoder enabled and the
\* packet RAM untouched.
C24_Witness ==
    /\ ~display_info.is_hdmi
    /\ epc = "enabled"
    /\ dev.audio.ret = -EINVAL
    /\ ~dev.audio.streaming
    /\ dev.crp_cfg = 0
    /\ pram.last.frame = NoFrame

RECURSIVE EuclidGCD(_, _)
EuclidGCD(a, b) == IF b = 0 THEN a ELSE EuclidGCD(b, a % b)

\* floor(pixelClockHz * n / (128 * sampleRate)) for a pixel clock given in
\* kHz, on the fraction 1000 * n / (128 * sampleRate) in lowest terms.
ExpectedCts(clock, n, sample_rate) ==
    LET g == EuclidGCD(1000 * n, 128 * sample_rate)
    IN  (clock * ((1000 * n) \div g)) \div ((128 * sample_rate) \div g)

\* The last audio callback that wrote the MAI registers was a successful
\* prepare.
AudioPrepared ==
    /\ dev.audio.ret = 0
    /\ "ENABLE" \in dev.mai_ctl

\* C25: after a successful audio prepare, for the sample rate it was called
\* with (read back from HDMI_MAI_FMT), N = floor(128 * sampleRate / 1000)
\* and CTS = floor(pixelClockHz * N / (128 * sampleRate)), both CTS
\* registers hold the same value, and 48000 Hz with a 148.5 MHz pixel clock
\* gives N = 6144 and CTS = 148500.
C25_NCts ==
    AudioPrepared =>
        \A sample_rate \in SampleRates :
            dev.mai_fmt = sample_rate_to_mai_fmt(sample_rate) =>
                LET n == VC4_GET_FIELD(dev.crp_cfg, VC4_HDMI_CRP_CFG_N)
                IN  /\ n = (128 * sample_rate) \div 1000
                    /\ dev.cts_0 = ExpectedCts(saved.mode.clock, n,
                                               sample_rate)
                    /\ dev.cts_1 = dev.cts_0
                    /\ (sample_rate = 48000 /\ saved.mode.clock = 148500)
                           => (n = 6144 /\ dev.cts_0 = 148500)

\* 48 kHz has been prepared on the 148.5 MHz mode.
C25_Witness ==
    /\ saved.mode.clock = 148500
    /\ AudioPrepared
    /\ dev.mai_fmt = sample_rate_to_mai_fmt(48000)
    /\ VC4_GET_FIELD(dev.crp_cfg, VC4_HDMI_CRP_CFG_N) = 6144
    /\ dev.cts_0 = 148500
    /\ dev.cts_1 = 148500

\* 44.1 kHz has been prepared on the 148.5 MHz mode: N and CTS are both
\* rounded down.
C25_Witness441 ==
    /\ saved.mode.clock = 148500
    /\ AudioPrepared
    /\ dev.mai_fmt = sample_rate_to_mai_fmt(44100)
    /\ VC4_GET_FIELD(dev.crp_cfg, VC4_HDMI_CRP_CFG_N) = 5644
    /\ dev.cts_0 = 148478

\* ------------------------------------------- timing and colorspace claims

\* The pixel repetition factor of the saved mode.
PixelRep == IF saved.mode.dblclk THEN 2 ELSE 1

\* The timing programmer has run in the enable under way.
TimingsProgrammed ==
    /\ epc \in {"configured", "pre_enabled", "enabled"}
    /\ cfg_ret = 0

\* C26: on both variants, after the timing programmer has run, the
\* horizontal-active-pixels field read back from HORZA is mode.hdisplay
\* times the pixel repetition factor, and the pixel-repetition field of
\* MISC_CONTROL is that factor less one.
C26_HapReadBack ==
    TimingsProgrammed =>
        /\ VC4_GET_FIELD(dev.horza,
                         IF variant = bcm2835_variant
                         THEN VC4_HDMI_HORZA_HAP
                         ELSE VC5_HDMI_HORZA_HAP)
               = saved.mode.hdisplay * PixelRep
        /\ VC4_GET_FIELD(dev.misc_control,
                         IF variant = bcm2835_variant
                         THEN VC4_HDMI_MISC_CONTROL_PIXEL_REP
                         ELSE VC5_HDMI_MISC_CONTROL_PIXEL_REP)
               = PixelRep - 1

\* A double-clocked 720 pixel mode has been programmed on the second
\* generation: 1440 active pixels, repetition field 1.
C26_Witness ==
    /\ TimingsProgrammed
    /\ variant = bcm2711_hdmi0_variant
    /\ saved.mode.dblclk
    /\ saved.mode.hdisplay = 720
    /\ VC4_GET_FIELD(dev.horza, VC5_HDMI_HORZA_HAP) = 1440
    /\ VC4_GET_FIELD(dev.misc_control, VC5_HDMI_MISC_CONTROL_PIXEL_REP) = 1

\* The colorspace converter has been set up in the enable under way.
CscProgrammed == epc \in {"pre_enabled", "enabled"}

\* The converter registers hold the matrix m and the conversion is on.
CscMatrixIs(m) ==
    /\ dev.csc = vc5_hdmi_set_csc_coeffs(m)
    /\ "ENABLE" \in dev.csc_ctl

\* C27: on both variants, once the colorspace converter is set up for a
\* negotiated output format of YUV422 or YUV444, it holds the BT.709
\* full-to-limited matrix of that format: the output is never left as
\* unconverted RGB while the negotiated format is YUV.
C27_YuvMatrix ==
    (CscProgrammed
     /\ conn_state.output_format \in {VC4_HDMI_OUTPUT_YUV422,
                                      VC4_HDMI_OUTPUT_YUV444})
    => CscMatrixIs(IF conn_state.output_format = VC4_HDMI_OUTPUT_YUV422
                   THEN vc5_hdmi_csc_full_rgb_to_limited_yuv422_bt709
                   ELSE vc5_hdmi_csc_full_rgb_to_limited_yuv444_bt709)

\* The 0-255 to 16-235 matrix of the variant is programmed.
LimitedRgbProgrammed ==
    CscMatrixIs(IF variant = bcm2835_variant
                THEN vc4_hdmi_csc_full_rgb_to_limited_rgb
                ELSE vc5_hdmi_csc_full_rgb_to_limited_rgb)

\* The identity is programmed: the unity matrix on the second generation,
\* the converter left off on the first.
IdentityProgrammed ==
    IF variant = bcm2835_variant
    THEN "ENABLE" \notin dev.csc_ctl
    ELSE CscMatrixIs(vc5_hdmi_csc_full_rgb_unity)

\* C28 as stated: for RGB output the limited-range matrix is programmed
\* whenever the default quantization range of the mode is limited, for
\* every sink, DVI sinks included, and the identity otherwise.
C28_LimitedForEverySink ==
    (CscProgrammed /\ conn_state.output_format = VC4_HDMI_OUTPUT_RGB)
    => IF drm_default_rgb_quant_range(saved.mode) = "LIMITED"
       THEN LimitedRgbProgrammed
       ELSE IdentityProgrammed

\* C28, amended: for RGB output the limited-range matrix is programmed
\* whenever the sink is an HDMI sink and the default quantization range of
\* the mode is limited, and the identity otherwise: a sink whose is_hdmi
\* flag is false gets the identity for every mode.
C28_LimitedForHdmiSinks ==
    (CscProgrammed /\ conn_state.output_format = VC4_HDMI_OUTPUT_RGB)
    => IF /\ display_info.is_hdmi
          /\ drm_default_rgb_quant_range(saved.mode) = "LIMITED"
       THEN LimitedRgbProgrammed
       ELSE IdentityProgrammed

\* VIC 16 on a DVI sink: the identity although the default range of the
\* mode is limited.
C28_Witness ==
    /\ CscProgrammed
    /\ conn_state.output_format = VC4_HDMI_OUTPUT_RGB
    /\ ~display_info.is_hdmi
    /\ saved.mode = Mode1080p60
    /\ drm_default_rgb_quant_range(saved.mode) = "LIMITED"
    /\ IdentityProgrammed
    /\ ~LimitedRgbProgrammed

\* VIC 16 on an HDMI sink of either generation: the limited-range matrix.
C28_WitnessLimited ==
    /\ CscProgrammed
    /\ conn_state.output_format = VC4_HDMI_OUTPUT_RGB
    /\ display_info.is_hdmi
    /\ saved.mode = Mode1080p60
    /\ LimitedRgbProgrammed

\* ------------------------------------------------------- locking claims

\* C23: every infoframe write and every packet stop the driver issues (from
\* the encoder enable, the audio prepare and the audio shutdown) runs with
\* the config mutex held by the context that issues it, so two contexts are
\* never inside a packet RAM operation at once.
C23_PacketOpsUnderMutex ==
    /\ \A t \in Threads :
           (NextOp(t) \in {"packet_stop", "ram_write"} \/ InPacketOp(t))
               => thr.mutex = t
    /\ \A t1 \in Threads, t2 \in Threads :
           (InPacketOp(t1) /\ InPacketOp(t2)) => t1 = t2

\* The audio prepare is about to write the packet RAM while the enable of
\* the commit waits for the mutex.
C23_Witness ==
    /\ thr.at["audio"].handler = "vc4_hdmi_audio_prepare"
    /\ NextOp("audio") = "ram_write"
    /\ thr.mutex = "audio"
    /\ thr.at["commit"].handler = "vc4_hdmi_encoder_post_crtc_enable"
    /\ NextOp("commit") = "mutex_lock"

\* C29: the register-access spinlock is never held by a context at the
\* moment it acquires the config mutex: the mutex is always taken first,
\* and no state is reached where contexts inside the driver all wait for a
\* lock.
C29_MutexBeforeSpinlock ==
    /\ \A t \in Threads : NextOp(t) = "mutex_lock" => thr.hw_lock # t
    /\ (\E t \in Threads : NextOp(t) # "none")
           => \E t \in Threads : CanStep(t)

\* The commit holds both locks, taken in that order, while the audio
\* callback waits for the mutex and the CEC interrupt for the spinlock.
C29_Witness ==
    /\ thr.mutex = "commit"
    /\ thr.hw_lock = "commit"
    /\ NextOp("audio") = "mutex_lock"
    /\ NextOp("cec") = "spin_lock"
    /\ ~CanStep("audio")
    /\ ~CanStep("cec")

\* C30: the contexts started by an interrupt (the hotplug handler and the
\* CEC handlers) never acquire the config mutex, the connector detect they
\* trigger included.
C30_IrqNeverTakesMutex ==
    \A t \in IrqThreads :
        /\ thr.mutex # t
        /\ NextOp(t) # "mutex_lock"

\* ------------------------------------------------------ deep color claim

\* The color depth code the timing programmer left in
\* HDMI_DEEP_COLOR_CONFIG_1 and in the General Control Packet.
DepthCodeIs(code) ==
    /\ VC4_GET_FIELD(dev.deep_color_config_1,
                     VC5_HDMI_DEEP_COLOR_CONFIG_1_COLOR_DEPTH) = code
    /\ VC4_GET_FIELD(dev.gcp_word_1,
                     VC5_HDMI_GCP_WORD_1_GCP_SUBPACKET_BYTE_1) = code

\* C31: on the second-generation variants the timing programmer writes depth
\* code 6 with GCP enabled for 12 bpc, code 5 with GCP enabled for 10 bpc,
\* code 4 with GCP disabled for any other bpc, and code 4 with GCP disabled
\* for YUV422 output whatever the bpc.
C31_GcpDepth ==
    (TimingsProgrammed /\ variant # bcm2835_variant) =>
        IF conn_state.output_format = VC4_HDMI_OUTPUT_YUV422
        THEN DepthCodeIs(4) /\ ~dev.gcp_enable
        ELSE IF conn_state.output_bpc = 12
        THEN DepthCodeIs(6) /\ dev.gcp_enable
        ELSE IF conn_state.output_bpc = 10
        THEN DepthCodeIs(5) /\ dev.gcp_enable
        ELSE DepthCodeIs(4) /\ ~dev.gcp_enable

\* YUV422 at 12 bpc has been programmed: code 4, GCP disabled.
C31_Witness ==
    /\ TimingsProgrammed
    /\ variant # bcm2835_variant
    /\ conn_state.output_format = VC4_HDMI_OUTPUT_YUV422
    /\ conn_state.output_bpc = 12
    /\ DepthCodeIs(4)
    /\ ~dev.gcp_enable

\* RGB at 10 bpc has been programmed: code 5, GCP enabled.
C31_Witness10 ==
    /\ TimingsProgrammed
    /\ variant # bcm2835_variant
    /\ conn_state.output_format = VC4_HDMI_OUTPUT_RGB
    /\ conn_state.output_bpc = 10
    /\ DepthCodeIs(5)
    /\ dev.gcp_enable

\* RGB at 12 bpc has been programmed: code 6, GCP enabled.
C31_Witness12 ==
    /\ TimingsProgrammed
    /\ variant # bcm2835_variant
    /\ conn_state.output_format = VC4_HDMI_OUTPUT_RGB
    /\ conn_state.output_bpc = 12
    /\ DepthCodeIs(6)
    /\ dev.gcp_enable

\* ------------------------------------------------------- byte clock claim

\* C32: the minimum rate asked of the secondary byte clock in the enable
\* sequence is 300 MHz when the pixel clock rate is above 297 MHz, 150 MHz
\* when it is above 148.5 MHz and at most 297 MHz, and 75 MHz otherwise;
\* exactly 297 MHz selects 150 MHz and exactly 148.5 MHz selects 75 MHz.
C32_BvbTiers ==
    TimingsProgrammed =>
        LET rate == conn_state.tmds_char_rate
            bvb == power.bvb_min_rate
        IN  /\ rate > 297000000 => bvb = 300000000
            /\ (rate > 148500000 /\ rate <= 297000000) => bvb = 150000000
            /\ rate <= 148500000 => bvb = 75000000
            /\ rate = 297000000 => bvb = 150000000
            /\ rate = 148500000 => bvb = 75000000
            /\ power.pixel_rate = rate

\* The enable of a 297 MHz mode at 8 bpc has asked for 150 MHz.
C32_Witness ==
    /\ TimingsProgrammed
    /\ conn_state.tmds_char_rate = 297000000
    /\ power.pixel_rate = 297000000
    /\ power.bvb_min_rate = 150000000

\* The enable of a 148.5 MHz mode at 8 bpc has asked for 75 MHz.
C32_WitnessLow ==
    /\ TimingsProgrammed
    /\ conn_state.tmds_char_rate = 148500000
    /\ power.bvb_min_rate = 75000000

\* The enable of a mode above 297 MHz has asked for 300 MHz.
C32_WitnessHigh ==
    /\ TimingsProgrammed
    /\ conn_state.tmds_char_rate > 297000000
    /\ power.bvb_min_rate = 300000000

\* C33: the CEC adapter operations never acquire the config mutex, so when
\* the physical address update calls them from connector detect or get_modes
\* with that mutex held, the caller never waits for a mutex it holds itself.
C33_CecOpsTakeNoMutex ==
    \A t \in Threads :
        /\ InCecAdapOp(t) => NextOp(t) # "mutex_lock"
        /\ NextOp(t) = "mutex_lock" => thr.mutex # t

\* get_modes is inside the adapter enable, about to take the register lock,
\* with the config mutex held.
C33_Witness ==
    /\ thr.at["commit"].handler = "vc4_hdmi_connector_get_modes"
    /\ thr.mutex = "commit"
    /\ InCecAdapOp("commit")
    /\ NextOp("commit") = "spin_lock"
    /\ CanStep("commit")

\* The steps an action has taken: what it appended to the trace, or the
\* whole trace if it started a new one.
NewSteps ==
    IF /\ Len(trace') >= Len(trace)
       /\ SubSeq(trace', 1, Len(trace)) = trace
    THEN SubSeq(trace', Len(trace) + 1, Len(trace'))
    ELSE trace'

Count(tr, ev) == Cardinality({i \in 1 .. Len(tr) : tr[i] = ev})

\* The step releases no more of a resource than was held before it plus
\* what the step itself acquired.
Balanced(held, acquire, release) ==
    Count(NewSteps, release) <= held + Count(NewSteps, acquire)

\* C34: whatever clock or power step of an enable fails, no hook disables
\* the pixel clock or the bvb clock more often than it was enabled, or
\* releases the power domain more often than it was acquired; a power-down
\* after a failed enable releases nothing the failed enable has unwound.
C34_ReleasesMatchAcquisitions ==
    [][/\ Balanced(power.pixel_clock, "clk_prepare_enable(pixel_clock)",
                   "clk_disable_unprepare(pixel_clock)")
       /\ Balanced(power.pixel_bvb_clock,
                   "clk_prepare_enable(pixel_bvb_clock)",
                   "clk_disable_unprepare(pixel_bvb_clock)")
       /\ Balanced(power.pm_usage, "pm_runtime_resume_and_get",
                   "pm_runtime_put")]_vars

\* Scrambling is on: the flag and the scrambler bit of the controller are
\* set and the check is armed.  (The flag alone says little: vc4_hdmi_bind
\* sets it on the variant that can exceed 340 MHz.)
ScramblingOn ==
    /\ hdmi.scdc_enabled
    /\ hdmi.scrambler_ctl_enable
    /\ hdmi.scrambling_work.pending > 0

\* C35: scrambling is on (scdc_enabled, the scrambler bit, the check armed)
\* only between a post_crtc_enable and the next post_crtc_disable; a detect
\* while the encoder is disabled or powered down does not turn it on.
C35_ScramblingOnlyWhileEnabled == ScramblingOn => epc = "enabled"

\* The slot a register of the packet RAM belongs to.
SlotOf(w) == w \div (VC4_HDMI_PACKET_STRIDE \div 4)

\* C36: a write of an infoframe to slot k changes only registers of the
\* packet RAM that lie in slot k, whatever the length of the packed frame;
\* no register of slot k + 1 is written.
C36_WriteStaysInSlot ==
    [][\A w \in RamWords :
           pram'.ram[w] # pram.ram[w] =>
               SlotOf(w) = pram'.last.frame.type - 128]_vars

\* A call of vc4_hdmi_write_infoframe has left its mark on the step.
InfoframeWritten == pram'.ram # pram.ram \/ pram'.last # pram.last

\* C37: packet_ram_enabled is set only between a post_crtc_enable for an
\* HDMI sink and the next post_crtc_disable, and then VC4_HDMI_RAM_PACKET_
\* ENABLE is set in HDMI_RAM_PACKET_CONFIG; every infoframe write, from the
\* enable or from the audio prepare, is made with the bit set, and the audio
\* infoframe is not written while the flag is clear.
C37_WritesOnlyWithRamOn ==
    [][/\ dev'.packet_ram_enabled =>
              /\ epc' = "enabled"
              /\ display_info.is_hdmi
              /\ pram'.enable
       /\ InfoframeWritten =>
              /\ pram'.enable
              /\ dev'.packet_ram_enabled]_vars

\* The audio prepare wrote the audio infoframe on an enabled encoder.
C37_Witness ==
    /\ epc = "enabled"
    /\ dev.packet_ram_enabled
    /\ dev.audio.ret = 0
    /\ dev.mai_fmt # 0
    /\ pram.last.frame = audio_infoframe(dev.audio.channels)

\* The audio prepare succeeded before the enable and wrote no infoframe.
C37_WitnessOff ==
    /\ epc = "off"
    /\ display_info.is_hdmi
    /\ ~dev.packet_ram_enabled
    /\ dev.audio.ret = 0
    /\ dev.mai_fmt # 0
    /\ pram.last.frame = NoFrame

\* C38: a write to a slot whose enable bit is set that fails with the
\* timeout of the stop poll has cleared that bit, has touched no other bit
\* of HDMI_RAM_PACKET_CONFIG and does not set the bit again.
C38_TimeoutLeavesSlotDisabled ==
    [][\A idle \in BOOLEAN, active \in BOOLEAN :
           LET frame == pram'.last.frame
               packet_id == frame.type - 128
           IN  (/\ frame \in Frames
                /\ packet_id \in pram.config
                /\ pram'.last.stop_ret = -ETIMEDOUT
                /\ WriteInfoframe(frame, idle, active)) =>
                   /\ pram'.config = pram.config \ {packet_id}
                   /\ pram'.enable = pram.enable
                   /\ pram'.last.start_ret = 0]_vars

\* A write of the AVI infoframe timed out on a slot that was enabled and
\* is still being sent.
C38_Witness ==
    /\ pram.last.frame.type = hdmi_avi_infoframe.type
    /\ pram.last.stop_ret = -ETIMEDOUT
    /\ 2 \notin pram.config
    /\ 2 \in pram.status
    /\ SlotReadBack(2)[1] = hdmi_avi_infoframe.type

\* The controller cannot go above 340 MHz: 4k60 is disabled, or the
\* variant's ceiling is no higher.
LimitedTo340MHz ==
    \/ disable_4kp60
    \/ variant.max_pixel_clock <= HDMI_14_MAX_TMDS_CLK

C39_WitnessVariant ==
    /\ variant = bcm2711_hdmi1_variant
    /\ epc = "enabled"
    /\ cfg_ret = 0
    /\ calls.detects > 0
    /\ display_info.scdc.supported
    /\ display_info.scdc.scrambling.supported
    /\ conn_state.tmds_char_rate = HDMI_14_MAX_TMDS_CLK
    /\ ~hdmi.scrambler_ctl_enable

\* C40: a detect puts back exactly the power references it took, on every
\* path and also when taking the reference failed, and reads no register of
\* the controller without holding its reference.
C40_DetectBalanced ==
    [][calls'.detects # calls.detects =>
           /\ power'.pm_usage = power.pm_usage
           /\ power'.detect.hotplug_read => power'.detect.acquired]_vars


====
